---- MODULE Spec2Model ----
(***************************************************************************)
(* A model of ConfluenceClient.script.js: the ConfluencePage entity with   *)
(* its dirty flags, and the ConfluenceClient operations that write it back *)
(* to a Confluence server through HTTP requests.                           *)
(*                                                                         *)
(* page   : the fields of one ConfluencePage object                        *)
(* server : the page as the Confluence server holds it                     *)
(* log    : the HTTP requests issued by the last operation, in order       *)
(* last   : the last operation called, its argument and its outcome        *)
(* paging : the loop of searchPages or loadPageChildren while it runs      *)
(***************************************************************************)
EXTENDS Integers, Sequences, FiniteSets, TLC

VARIABLES page, server, log, last, paging

vars == <<page, server, log, last, paging>>

-----------------------------------------------------------------------------
(* JavaScript values.  A field that may be undefined holds None or Some(v). *)
(* Strings a regular expression inspects are sequences of characters.      *)

None == <<>>

Some(v) == <<v>>

Val(m) == m[1]

\* the truthiness of a string field, a number field and an object field
TruthyStr(m) == m # None /\ Val(m) # ""

TruthySeq(m) == m # None /\ Val(m) # <<>>

TruthyNum(m) == m # None /\ Val(m) # 0

TruthyObj(m) == m # None

Digits == {"0", "1", "2", "3", "4", "5", "6", "7", "8", "9"}

LowerLetters == <<"a", "b", "c", "d", "e", "f", "g", "h", "i", "j", "k", "l", "m",
                  "n", "o", "p", "q", "r", "s", "t", "u", "v", "w", "x", "y", "z">>

UpperLetters == <<"A", "B", "C", "D", "E", "F", "G", "H", "I", "J", "K", "L", "M",
                  "N", "O", "P", "Q", "R", "S", "T", "U", "V", "W", "X", "Y", "Z">>

Range(s) == {s[i] : i \in 1..Len(s)}

AllIn(s, chars) == \A i \in 1..Len(s) : s[i] \in chars

\* String.prototype.toLowerCase
LowerChar(c) ==
    IF \E i \in 1..Len(UpperLetters) : UpperLetters[i] = c
    THEN LowerLetters[CHOOSE i \in 1..Len(UpperLetters) : UpperLetters[i] = c]
    ELSE c

toLowerCase(s) == [i \in 1..Len(s) |-> LowerChar(s[i])]

\* String.prototype.trim
RECURSIVE trimLeft(_)
trimLeft(s) == IF s # <<>> /\ Head(s) = " " THEN trimLeft(Tail(s)) ELSE s

RECURSIVE trimRight(_)
trimRight(s) ==
    IF s # <<>> /\ s[Len(s)] = " " THEN trimRight(SubSeq(s, 1, Len(s) - 1)) ELSE s

trim(s) == trimRight(trimLeft(s))

\* ConfluenceClient.isValidInteger on a string: /^[0-9]{1,}$/
isValidInteger(s) == Len(s) >= 1 /\ AllIn(s, Digits)

\* ConfluenceClient.isValidInteger on a number n: n.toString() is all digits
\* exactly when n is a non-negative integer
isValidIntegerNumber(n) == n >= 0

\* the number a string of digits stands for
RECURSIVE NumberOf(_)
NumberOf(digits) ==
    IF digits = <<>> THEN 0
    ELSE 10 * NumberOf(SubSeq(digits, 1, Len(digits) - 1))
         + (CHOOSE d \in 0..9 : ToString(d) = digits[Len(digits)])

\* the digits of a number, n.toString()
RECURSIVE DigitsOf(_)
DigitsOf(n) ==
    IF n < 10 THEN <<ToString(n)>> ELSE Append(DigitsOf(n \div 10), ToString(n % 10))

\* ConfluenceClient.isValidLabelName: /^[0-9a-zA-Z_\-~{}%+]{1,}$/
LabelChars ==
    Digits \cup Range(LowerLetters) \cup Range(UpperLetters)
           \cup {"_", "-", "~", "{", "}", "%", "+"}

isValidLabelName(s) == Len(s) >= 1 /\ AllIn(s, LabelChars)

\* ConfluenceClient.isValidSpaceKey: /^(~)?[0-9a-z-]{3,255}$/
isValidSpaceKey(s) ==
    LET r == IF s # <<>> /\ Head(s) = "~" THEN Tail(s) ELSE s
    IN  /\ Len(r) >= 3
        /\ Len(r) <= 255
        /\ AllIn(r, Digits \cup Range(LowerLetters) \cup {"-"})

-----------------------------------------------------------------------------
(* The values the model draws from.                                        *)

\* the largest version number the server reaches
MaxVersion == 3

\* the most labels the page has on the server when it is loaded or when another
\* user changed them
MaxLabels == 2

\* the most pages a search or a list of children matches on the server
MaxHits == 3

\* the offset from which a server that never answers with an empty page is no
\* longer asked
MaxStart == 4

Titles == {"Draft", "Final"}

TitleInputs == Titles \cup {""}

Bodies == {"", "<p>x</p>"}

SpaceKeys == {<<"d", "e", "v">>, <<"o", "p", "s">>}

SpaceKeyInputs == SpaceKeys \cup {<<"D", "E", "V">>}

PageIds == {<<"7">>, <<"8">>}

PageIdInputs == PageIds \cup {<<"x">>}

ThePageId == <<"1", "0", "0">>

Clients == {"c1", "c2"}

TheClient == "c1"

\* label names a caller passes; the last two fail isValidLabelName
LabelInputs == {<<"a">>, <<"A">>, <<"b">>, <<"a", " ">>, <<>>}

\* label names the server may hold; <<"$">> is a name Confluence accepts and
\* isValidLabelName rejects
ServerLabelNames == {<<"a">>, <<"A">>, <<"b">>, <<"$">>}

VersionInputs == -1..MaxVersion

FieldNames == {"f", "g"}

FieldValues == {"", "v"}

\* the filters passed to loadScaffoldingData: none, or the names of the fields
AllowedFieldInputs == {None, Some(<<"f">>)}

-----------------------------------------------------------------------------
(* ConfluencePage                                                          *)

\* ConfluenceClient.initialize: the internal id a client gives itself
InternalId(client) == client

\* new ConfluencePage(client): every field but the client's is undefined
\* (the dirty flags too: they are read for their truthiness alone, hence FALSE)
NewPage(client) ==
    [refConfluenceClient |-> client, strInternalId |-> InternalId(client),
     numericId |-> None,
     strId |-> None, strStatus |-> None, strTitle |-> None, strSpaceKey |-> None,
     intVersionNumber |-> None, versionString |-> None,
     strBody |-> None, strParentPageId |-> None,
     arrLabels |-> None, arrScaffoldingData |-> None,
     hasTitleChanged |-> FALSE, hasSpaceKeyChanged |-> FALSE,
     hasBodyChanged |-> FALSE, hasScaffoldingDataChanged |-> FALSE,
     hasParentPageIdChanged |-> FALSE, haveLabelsChanged |-> FALSE]

\* ConfluencePage.isValid
isValid(p) == p.strInternalId = InternalId(p.refConfluenceClient)

\* ConfluencePage.setParentPageId, past its validation
setParentPageId(p, v) ==
    [p EXCEPT !.hasParentPageIdChanged = (p.strParentPageId # Some(v)),
              !.strParentPageId = Some(v)]

\* new ConfluencePage(client, jsonPage): the fields of the response, the parent
\* taken from the last ancestor, the labels only when there are some, and every
\* dirty flag false
Decode(client, json) ==
    LET q == [NewPage(client) EXCEPT
                !.strId = Some(json.id),
                !.strStatus = Some(json.status),
                !.strTitle = Some(json.title),
                !.strSpaceKey = Some(json.spaceKey),
                !.intVersionNumber = Some(json.version),
                !.strBody = Some(json.body),
                !.arrLabels = IF Len(json.labels) > 0 THEN Some(json.labels) ELSE None]
        r == IF Len(json.ancestors) > 0
             THEN setParentPageId(q, json.ancestors[Len(json.ancestors)])
             ELSE q
    IN  [r EXCEPT !.hasTitleChanged = FALSE, !.hasSpaceKeyChanged = FALSE,
                  !.hasBodyChanged = FALSE, !.hasScaffoldingDataChanged = FALSE,
                  !.hasParentPageIdChanged = FALSE, !.haveLabelsChanged = FALSE]

\* setTitle with a flag that, once set, stays set
setTitleSticky(p, v) ==
    [p EXCEPT !.hasTitleChanged = @ \/ (p.strTitle # Some(v)), !.strTitle = Some(v)]

\* ConfluencePage.setTitle, past its validation
setTitle(p, v) ==
    [p EXCEPT !.hasTitleChanged = (p.strTitle # Some(v)), !.strTitle = Some(v)]

\* ConfluencePage.setSpaceKey, past its validation
setSpaceKey(p, v) ==
    [p EXCEPT !.hasSpaceKeyChanged = (p.strSpaceKey # Some(v)), !.strSpaceKey = Some(v)]

\* ConfluencePage.setBody, past its validation
setBody(p, v) ==
    [p EXCEPT !.hasBodyChanged = (p.strBody # Some(v)), !.strBody = Some(v)]

\* setVersionNumber without line 1183: the body flag is left as it is
setVersionNumberKeepsBodyFlag(p, v) ==
    LET q == IF p.intVersionNumber # Some(v)
             THEN [p EXCEPT !.hasTitleChanged = FALSE,
                            !.hasSpaceKeyChanged = FALSE,
                            !.hasParentPageIdChanged = FALSE,
                            !.haveLabelsChanged = FALSE]
             ELSE p
    IN  [q EXCEPT !.intVersionNumber = Some(v), !.versionString = None]

\* ConfluencePage.setVersionNumber, past its validation
setVersionNumber(p, v) ==
    LET q == IF p.intVersionNumber # Some(v)
             THEN [p EXCEPT !.hasTitleChanged = FALSE,
                            !.hasSpaceKeyChanged = FALSE,
                            !.hasParentPageIdChanged = FALSE,
                            !.hasBodyChanged = FALSE,
                            !.haveLabelsChanged = FALSE]
             ELSE p
    IN  [q EXCEPT !.intVersionNumber = Some(v), !.versionString = None]

\* ConfluencePage.setVersionNumber with a string of digits, past its
\* validation: line 1186 stores the value as it was given, so the field holds
\* a string (versionString) and no number
setVersionNumberString(p, digits) ==
    LET q == IF p.versionString # Some(digits)
             THEN [p EXCEPT !.hasTitleChanged = FALSE,
                            !.hasSpaceKeyChanged = FALSE,
                            !.hasParentPageIdChanged = FALSE,
                            !.hasBodyChanged = FALSE,
                            !.haveLabelsChanged = FALSE]
             ELSE p
    IN  [q EXCEPT !.intVersionNumber = None, !.versionString = Some(digits)]

\* the version number field is truthy: a number other than 0, or a string,
\* which is never empty
HasVersionNumber(p) == TruthyNum(p.intVersionNumber) \/ TruthySeq(p.versionString)

\* ConfluencePage.setStatus, past its validation
setStatus(p, strStatus) == [p EXCEPT !.strStatus = Some(strStatus)]

\* the id field is truthy: a string, which is never empty, or a number other
\* than 0 (numericId holds the id when it was given as a number)
HasId(p) == TruthySeq(p.strId) \/ TruthyNum(p.numericId)

\* ConfluencePage.setId refuses to give a page that has an id another one: the
\* test is this._strId && this._strId != strPageId, and != compares two strings
\* as they are and a number with a string by the number the string stands for
setIdRefuses(p, strPageId) ==
    \/ TruthySeq(p.strId) /\ p.strId # Some(strPageId)
    \/ TruthyNum(p.numericId) /\ Val(p.numericId) # NumberOf(strPageId)

\* the same test when setId is called with a number
setIdNumberRefuses(p, intPageId) ==
    \/ TruthySeq(p.strId) /\ NumberOf(Val(p.strId)) # intPageId
    \/ TruthyNum(p.numericId) /\ Val(p.numericId) # intPageId

\* ConfluencePage.setId, past its validation and its refusal
setId(p, strPageId) == [p EXCEPT !.strId = Some(strPageId), !.numericId = None]

\* ConfluencePage.setId called with a number, past its validation and its
\* refusal: the number is stored as it was given
setIdNumber(p, intPageId) == [p EXCEPT !.strId = None, !.numericId = Some(intPageId)]

\* ConfluencePage.increaseVersionNumber, past its check
\* (+= 1 on a number adds one, on a string appends the character 1)
increaseVersionNumber(p) ==
    IF p.versionString # None
    THEN [p EXCEPT !.versionString = Some(Append(Val(p.versionString), "1"))]
    ELSE [p EXCEPT !.intVersionNumber = Some(Val(p.intVersionNumber) + 1)]

\* ConfluencePage.hasLabel, past its validation
hasLabel(p, name) ==
    /\ p.arrLabels # None
    /\ \E i \in 1..Len(Val(p.arrLabels)) : Val(p.arrLabels)[i] = trim(toLowerCase(name))

\* addLabel that keeps the letter case of the name
addLabelKeepsCase(p, name) ==
    LET n == trim(name)
        arr == IF p.arrLabels # None THEN Val(p.arrLabels) ELSE <<>>
    IN  IF p.arrLabels # None /\ \E i \in 1..Len(arr) : arr[i] = n
        THEN p
        ELSE [p EXCEPT !.haveLabelsChanged = TRUE, !.arrLabels = Some(Append(arr, n))]

\* ConfluencePage.addLabel, past its validation
addLabel(p, name) ==
    LET n == trim(toLowerCase(name))
        arr == IF p.arrLabels # None THEN Val(p.arrLabels) ELSE <<>>
    IN  IF p.arrLabels # None /\ \E i \in 1..Len(arr) : arr[i] = n
        THEN p
        ELSE [p EXCEPT !.haveLabelsChanged = TRUE, !.arrLabels = Some(Append(arr, n))]

\* ConfluencePage.removeLabel, past its validation
removeLabel(p, name) ==
    LET n == trim(toLowerCase(name))
    IN  IF p.arrLabels = None
        THEN p
        ELSE LET arr == Val(p.arrLabels)
             IN  [p EXCEPT
                    !.haveLabelsChanged = p.haveLabelsChanged \/ (\E i \in 1..Len(arr) : arr[i] = n),
                    !.arrLabels = Some(SelectSeq(arr, LAMBDA x : x # n))]

\* the position of the field named name in the scaffolding data, or 0
FieldIndex(data, name) ==
    IF \E i \in 1..Len(data) : data[i].name = name
    THEN CHOOSE i \in 1..Len(data) :
            data[i].name = name /\ \A j \in 1..(i - 1) : data[j].name # name
    ELSE 0

\* ConfluencePage.setScaffoldingData, past its validation
setScaffoldingData(p, data) ==
    [p EXCEPT !.arrScaffoldingData = Some(data), !.hasScaffoldingDataChanged = TRUE]

\* ConfluencePage.setScaffoldingValue, past its validation
setScaffoldingValue(p, name, value) ==
    LET data == IF p.arrScaffoldingData # None THEN Val(p.arrScaffoldingData) ELSE <<>>
        i == FieldIndex(data, name)
    IN  [p EXCEPT
           !.arrScaffoldingData =
               Some(IF i > 0
                    THEN [data EXCEPT ![i].value = value]
                    ELSE Append(data, [name |-> name, value |-> value])),
           !.hasScaffoldingDataChanged = TRUE]

-----------------------------------------------------------------------------
(* The Confluence server: the page it holds and the responses it gives.    *)
(* A response is its status code and what went wrong with it, if anything: *)
(* "transport" is an exception thrown by RESTMessageV2.execute, "body" a   *)
(* body that JSON.parse or the ConfluencePage constructor throws on.       *)

StatusResponse(code) == [status |-> code, fault |-> "none"]

TransportError == [status |-> 0, fault |-> "transport"]

BadBody(code) == [status |-> code, fault |-> "body"]

\* the responses to PUT /rest/api/content/{id}
PutResponses == {StatusResponse(200), BadBody(200), StatusResponse(500), TransportError}

\* the responses to GET /rest/api/content/{id}/label
LabelListResponses == {StatusResponse(200), BadBody(200), StatusResponse(500), TransportError}

\* the responses to POST /rest/api/content/{id}/label
LabelAddResponses == {StatusResponse(200), StatusResponse(500), TransportError}

\* the responses to DELETE /rest/api/content/{id}/label?name=
LabelRemoveResponses == {StatusResponse(204), StatusResponse(500), TransportError}

\* the responses to PUT /rest/scaffolding/1.0/api/form/{id}
ScaffoldingPutResponses ==
    {StatusResponse(200), StatusResponse(304), StatusResponse(500), TransportError}

\* the responses to GET /rest/scaffolding/1.0/api/form/{id}
ScaffoldingGetResponses ==
    {StatusResponse(200), BadBody(200), StatusResponse(500), TransportError}

\* the responses to POST /rest/api/content
CreateResponses == {StatusResponse(200), BadBody(200), StatusResponse(500), TransportError}

\* the responses to DELETE /rest/api/content/{id}
RemovePageResponses ==
    {StatusResponse(200), StatusResponse(204), StatusResponse(202), StatusResponse(500),
     TransportError}

\* one HTTP request as the log records it
Request(method, endpoint, names, response) ==
    [method |-> method, endpoint |-> endpoint, names |-> names,
     status |-> response.status, fault |-> response.fault]

\* the body of a page response: the page as the server holds it
ServerJson(s, labelList) ==
    [id |-> s.id, status |-> s.status, title |-> s.title, spaceKey |-> s.spaceKey,
     version |-> s.version, body |-> s.body, labels |-> labelList,
     ancestors |-> <<s.parentId>>]

\* the orders in which the server may list the label set S
Orders(S) ==
    {f \in [1..Cardinality(S) -> S] : \A i, j \in 1..Cardinality(S) : f[i] = f[j] => i = j}

\* the server accepts an update only for the version after its own
PutAccepted(s, payload) == payload.version = Some(s.version + 1)

\* the page after the server applied an update: the fields of the payload replace
\* the server's, and the version grows only when one of them changed
ServerPut(s, payload) ==
    LET t == [s EXCEPT
                !.title = Val(payload.title),
                !.spaceKey = Val(payload.spaceKey),
                !.body = IF payload.body # None THEN Val(payload.body) ELSE @,
                !.parentId = IF payload.ancestors # None THEN Val(payload.ancestors) ELSE @]
    IN  IF t = s THEN s ELSE [t EXCEPT !.version = s.version + 1]

\* the id the server gives the next page it creates
NewPageId == <<"1", "0", "1">>

\* the page the server creates from the payload of a create request
ServerCreate(payload) ==
    [id |-> NewPageId, status |-> "current", title |-> Val(payload.title),
     spaceKey |-> Val(payload.spaceKey),
     parentId |-> IF payload.ancestors # None THEN Val(payload.ancestors) ELSE <<>>,
     body |-> IF payload.body # None THEN Val(payload.body) ELSE "",
     version |-> 1, labels |-> {}, scaffolding |-> <<>>]

\* the server's page after a delete request was answered with success
ServerTrash(s) == [s EXCEPT !.status = "trashed"]

-----------------------------------------------------------------------------
(* ConfluenceClient.  An operation yields the page and the server after it, *)
(* what it returned ("true", "false", or "throw" for a thrown Error), the   *)
(* requests it issued and the calls of other client methods it made.        *)

Outcome(p, s, result, requests) ==
    [page |-> p, server |-> s, result |-> result, log |-> requests, calls |-> <<>>]

\* a call of removePageLabel or addPageLabels made by updatePageLabels
SubCall(method, name, result) == [method |-> method, name |-> name, result |-> result]

\* ConfluenceClient._isValidPageObj
isValidPageObj(client, p) == isValid(p)

\* ConfluencePage.stringify: the payload of a create or an update request
stringify(p, createNewPage, suppressNotifications) ==
    [threw |-> createNewPage /\ suppressNotifications,
     id |-> IF createNewPage THEN None ELSE p.strId,
     numericId |-> IF createNewPage THEN None ELSE p.numericId,
     version |-> IF createNewPage \/ p.intVersionNumber = None
                 THEN None
                 ELSE Some(Val(p.intVersionNumber) + 1),
     versionString |-> IF createNewPage \/ p.versionString = None
                       THEN None
                       ELSE Some(Append(Val(p.versionString), "1")),
     minorEdit |-> ~createNewPage /\ suppressNotifications,
     type |-> "page",
     title |-> p.strTitle,
     spaceKey |-> p.strSpaceKey,
     body |-> IF TruthyStr(p.strBody) THEN p.strBody ELSE None,
     ancestors |-> IF TruthySeq(p.strParentPageId) THEN p.strParentPageId ELSE None]

\* the version the request asked for is kept instead of the returned one
adoptVersionNumberRequested(p, objReturnedPage) ==
    setVersionNumber(p, Val(p.intVersionNumber) + 1)

\* ConfluenceClient.updatePageData, line 421: the version of the returned page is
\* written back to the caller's page
adoptVersionNumber(p, objReturnedPage) ==
    setVersionNumber(p, Val(objReturnedPage.intVersionNumber))

\* updatePageData that does not ask for the parent page id
updatePageDataAnyParent(client, p, s, suppressNotifications, response) ==
    IF ~isValidPageObj(client, p) THEN Outcome(p, s, "throw", <<>>)
    ELSE IF ~(/\ HasId(p)
              /\ HasVersionNumber(p)
              /\ TruthyStr(p.strTitle)
              /\ TruthySeq(p.strSpaceKey)) THEN Outcome(p, s, "throw", <<>>)
    ELSE
      LET payload == stringify(p, FALSE, suppressNotifications)
          request == <<Request("put", "content", <<>>, response)>>
      IN  IF response.fault = "transport" THEN Outcome(p, s, "false", request)
          ELSE IF response.status = 200
          THEN LET s2 == ServerPut(s, payload)
               IN  IF response.fault = "body"
                   THEN Outcome(p, s2, "false", request)
                   ELSE LET objReturnedPage == Decode(client, ServerJson(s2, <<>>))
                            v == Val(objReturnedPage.intVersionNumber)
                        IN  IF ~isValidIntegerNumber(v)
                            THEN Outcome(p, s2, "false", request)
                            ELSE Outcome(adoptVersionNumber(p, objReturnedPage),
                                         s2, "true", request)
          ELSE Outcome(p, s, "false", request)

\* updatePageData that sends its request once more when it failed
updatePageDataRetries(client, p, s, suppressNotifications, response) ==
    IF ~isValidPageObj(client, p) THEN Outcome(p, s, "throw", <<>>)
    ELSE IF ~(/\ HasId(p)
              /\ HasVersionNumber(p)
              /\ TruthySeq(p.strParentPageId)
              /\ TruthyStr(p.strTitle)
              /\ TruthySeq(p.strSpaceKey)) THEN Outcome(p, s, "throw", <<>>)
    ELSE
      LET payload == stringify(p, FALSE, suppressNotifications)
          request == <<Request("put", "content", <<>>, response)>>
      IN  IF response.fault = "transport" THEN Outcome(p, s, "false", request \o request)
          ELSE IF response.status = 200
          THEN LET s2 == ServerPut(s, payload)
               IN  IF response.fault = "body"
                   THEN Outcome(p, s2, "false", request)
                   ELSE LET objReturnedPage == Decode(client, ServerJson(s2, <<>>))
                            v == Val(objReturnedPage.intVersionNumber)
                        IN  IF ~isValidIntegerNumber(v)
                            THEN Outcome(p, s2, "false", request)
                            ELSE Outcome(adoptVersionNumber(p, objReturnedPage),
                                         s2, "true", request)
          ELSE Outcome(p, s, "false", request \o request)

\* updatePageData that raises the version number of the page when it sends the
\* request, not when the request was accepted
updatePageDataCountsFirst(client, p, s, suppressNotifications, response) ==
    IF ~isValidPageObj(client, p) THEN Outcome(p, s, "throw", <<>>)
    ELSE IF ~(/\ HasId(p)
              /\ HasVersionNumber(p)
              /\ TruthySeq(p.strParentPageId)
              /\ TruthyStr(p.strTitle)
              /\ TruthySeq(p.strSpaceKey)) THEN Outcome(p, s, "throw", <<>>)
    ELSE
      LET payload == stringify(p, FALSE, suppressNotifications)
          request == <<Request("put", "content", <<>>, response)>>
      IN  IF response.fault = "transport" THEN Outcome(increaseVersionNumber(p), s, "false", request)
          ELSE IF response.status = 200
          THEN LET s2 == ServerPut(s, payload)
               IN  IF response.fault = "body"
                   THEN Outcome(increaseVersionNumber(p), s2, "false", request)
                   ELSE LET objReturnedPage == Decode(client, ServerJson(s2, <<>>))
                            v == Val(objReturnedPage.intVersionNumber)
                        IN  IF ~isValidIntegerNumber(v)
                            THEN Outcome(increaseVersionNumber(p), s2, "false", request)
                            ELSE Outcome(adoptVersionNumber(p, objReturnedPage),
                                         s2, "true", request)
          ELSE Outcome(increaseVersionNumber(p), s, "false", request)

\* ConfluenceClient.updatePageData
updatePageData(client, p, s, suppressNotifications, response) ==
    IF ~isValidPageObj(client, p) THEN Outcome(p, s, "throw", <<>>)
    ELSE IF ~(/\ HasId(p)
              /\ HasVersionNumber(p)
              /\ TruthySeq(p.strParentPageId)
              /\ TruthyStr(p.strTitle)
              /\ TruthySeq(p.strSpaceKey)) THEN Outcome(p, s, "throw", <<>>)
    ELSE
      LET payload == stringify(p, FALSE, suppressNotifications)
          request == <<Request("put", "content", <<>>, response)>>
      IN  IF response.fault = "transport" THEN Outcome(p, s, "false", request)
          ELSE IF response.status = 200
          THEN LET s2 == ServerPut(s, payload)
               IN  IF response.fault = "body"
                   THEN Outcome(p, s2, "false", request)
                   ELSE LET objReturnedPage == Decode(client, ServerJson(s2, <<>>))
                            v == Val(objReturnedPage.intVersionNumber)
                        IN  IF ~isValidIntegerNumber(v)
                            THEN Outcome(p, s2, "false", request)
                            ELSE Outcome(adoptVersionNumber(p, objReturnedPage),
                                         s2, "true", request)
          ELSE Outcome(p, s, "false", request)

\* the page after addLabel was called with each of names in turn
RECURSIVE addLabelsInTurn(_, _)
addLabelsInTurn(p, names) ==
    IF names = <<>> THEN p ELSE addLabelsInTurn(addLabel(p, Head(names)), Tail(names))

\* addPageLabels that gives the page the labels before it knows the answer
addPageLabelsMirrorsFirst(client, p, s, arrLabelNames, response) ==
    IF ~isValidPageObj(client, p) THEN Outcome(p, s, "throw", <<>>)
    ELSE IF ~HasId(p) THEN Outcome(p, s, "throw", <<>>)
    ELSE IF Len(arrLabelNames) = 0 THEN Outcome(p, s, "false", <<>>)
    ELSE IF \E i \in 1..Len(arrLabelNames) : ~isValidLabelName(arrLabelNames[i])
    THEN Outcome(p, s, "throw", <<>>)
    ELSE
      LET request == <<Request("post", "label", arrLabelNames, response)>>
          p2 == addLabelsInTurn(p, arrLabelNames)
      IN  IF response.fault = "transport" THEN Outcome(p2, s, "false", request)
          ELSE IF response.status = 200
          THEN Outcome(p2, [s EXCEPT !.labels = @ \cup Range(arrLabelNames)],
                       "true", request)
          ELSE Outcome(p2, s, "false", request)

\* ConfluenceClient.addPageLabels
addPageLabels(client, p, s, arrLabelNames, response) ==
    IF ~isValidPageObj(client, p) THEN Outcome(p, s, "throw", <<>>)
    ELSE IF ~HasId(p) THEN Outcome(p, s, "throw", <<>>)
    ELSE IF Len(arrLabelNames) = 0 THEN Outcome(p, s, "false", <<>>)
    ELSE IF \E i \in 1..Len(arrLabelNames) : ~isValidLabelName(arrLabelNames[i])
    THEN Outcome(p, s, "throw", <<>>)
    ELSE
      LET request == <<Request("post", "label", arrLabelNames, response)>>
      IN  IF response.fault = "transport" THEN Outcome(p, s, "false", request)
          ELSE IF response.status = 200
          THEN Outcome(addLabelsInTurn(p, arrLabelNames),
                       [s EXCEPT !.labels = @ \cup Range(arrLabelNames)],
                       "true", request)
          ELSE Outcome(p, s, "false", request)

\* ConfluenceClient.removePageLabel
removePageLabel(client, p, s, strLabelName, response) ==
    IF ~isValidLabelName(strLabelName) THEN Outcome(p, s, "throw", <<>>)
    ELSE IF ~isValidPageObj(client, p) THEN Outcome(p, s, "throw", <<>>)
    ELSE IF ~HasId(p) THEN Outcome(p, s, "throw", <<>>)
    ELSE
      LET request == <<Request("delete", "label", <<strLabelName>>, response)>>
      IN  IF response.fault = "transport" THEN Outcome(p, s, "false", request)
          ELSE IF response.status = 204
          THEN Outcome(removeLabel(p, strLabelName),
                       [s EXCEPT !.labels = @ \ {strLabelName}],
                       "true", request)
          ELSE Outcome(p, s, "false", request)

\* The two loops of ConfluenceClient.updatePageLabels work on a record st:
\*   page, server, log : as the sub-calls left them
\*   local  : arrLocalLabels, the array getLabels() returned before the loops
\*   shared : arrLocalLabels is still the page's own array (removeLabel gives the
\*            page a new one; addLabel pushes onto the page's)
\*   result : result1 && result2 so far
\*   threw  : a sub-call threw, which ends the loops in the catch block
\*   calls  : the sub-calls made so far

\* the first loop, from the remote label at index a on
RECURSIVE removeRemoteLabels(_, _, _, _, _)
removeRemoteLabels(client, st, arrRemoteLabels, a, responses) ==
    IF a > Len(arrRemoteLabels) \/ st.threw THEN st
    ELSE
      LET name == arrRemoteLabels[a]
          existsLocally == \E b \in 1..Len(st.local) : st.local[b] = name
      IN  IF existsLocally
          THEN removeRemoteLabels(client, st, arrRemoteLabels, a + 1, responses)
          ELSE
            LET o == removePageLabel(client, st.page, st.server, name, responses[name])
                call == SubCall("removePageLabel", name, o.result)
            IN  IF o.result = "throw"
                THEN [st EXCEPT !.threw = TRUE, !.calls = Append(@, call)]
                ELSE removeRemoteLabels(client,
                        [st EXCEPT !.page = o.page,
                                   !.server = o.server,
                                   !.log = @ \o o.log,
                                   !.calls = Append(@, call),
                                   !.shared = @ /\ ~(o.result = "true" /\ st.page.arrLabels # None),
                                   !.result = @ /\ o.result = "true"],
                        arrRemoteLabels, a + 1, responses)

\* the second loop with result2 in place of result1 && result2: what the calls
\* before the last one returned is forgotten
RECURSIVE addLocalLabelsLastResult(_, _, _, _, _)
addLocalLabelsLastResult(client, st, arrRemoteLabels, c, responses) ==
    IF c > Len(st.local) \/ st.threw THEN st
    ELSE
      LET name == st.local[c]
          existsRemote == \E d \in 1..Len(arrRemoteLabels) : arrRemoteLabels[d] = name
      IN  IF existsRemote
          THEN addLocalLabelsLastResult(client, st, arrRemoteLabels, c + 1, responses)
          ELSE
            LET o == addPageLabels(client, st.page, st.server, <<name>>, responses[name])
                call == SubCall("addPageLabels", name, o.result)
            IN  IF o.result = "throw"
                THEN [st EXCEPT !.threw = TRUE, !.calls = Append(@, call)]
                ELSE addLocalLabelsLastResult(client,
                        [st EXCEPT !.page = o.page,
                                   !.server = o.server,
                                   !.log = @ \o o.log,
                                   !.calls = Append(@, call),
                                   !.local = IF st.shared THEN Val(o.page.arrLabels) ELSE @,
                                   !.result = o.result = "true"],
                        arrRemoteLabels, c + 1, responses)

\* the second loop, from the local label at index c on
RECURSIVE addLocalLabels(_, _, _, _, _)
addLocalLabels(client, st, arrRemoteLabels, c, responses) ==
    IF c > Len(st.local) \/ st.threw THEN st
    ELSE
      LET name == st.local[c]
          existsRemote == \E d \in 1..Len(arrRemoteLabels) : arrRemoteLabels[d] = name
      IN  IF existsRemote
          THEN addLocalLabels(client, st, arrRemoteLabels, c + 1, responses)
          ELSE
            LET o == addPageLabels(client, st.page, st.server, <<name>>, responses[name])
                call == SubCall("addPageLabels", name, o.result)
            IN  IF o.result = "throw"
                THEN [st EXCEPT !.threw = TRUE, !.calls = Append(@, call)]
                ELSE addLocalLabels(client,
                        [st EXCEPT !.page = o.page,
                                   !.server = o.server,
                                   !.log = @ \o o.log,
                                   !.calls = Append(@, call),
                                   !.local = IF st.shared THEN Val(o.page.arrLabels) ELSE @,
                                   !.result = @ /\ o.result = "true"],
                        arrRemoteLabels, c + 1, responses)

\* updatePageLabels that takes a label list it did not get for an empty one and
\* reports success
updatePageLabelsWithoutList(client, p, s, results, response, removeResponses, addResponses) ==
    IF ~isValidPageObj(client, p) THEN Outcome(p, s, "throw", <<>>)
    ELSE IF ~HasId(p) THEN Outcome(p, s, "throw", <<>>)
    ELSE
      LET request == <<Request("get", "label", <<>>, response)>>
      IN  IF response.fault = "transport" THEN Outcome(p, s, "false", request)
          ELSE IF response.status # 200 THEN Outcome(p, s, "true", request)
          ELSE IF response.fault = "body" THEN Outcome(p, s, "false", request)
          ELSE
            LET intSize == Len(results)
                arrRemoteLabels == IF intSize > 0 THEN results ELSE <<>>
                arrLocalLabels == IF p.arrLabels # None THEN Val(p.arrLabels) ELSE <<>>
                st0 == [page |-> p, server |-> s, log |-> request,
                        local |-> arrLocalLabels, shared |-> p.arrLabels # None,
                        result |-> TRUE, threw |-> FALSE, calls |-> <<>>]
                st1 == removeRemoteLabels(client, st0, arrRemoteLabels, 1, removeResponses)
                st2 == addLocalLabels(client, st1, arrRemoteLabels, 1, addResponses)
            IN  [Outcome(st2.page, st2.server,
                         IF ~st2.threw /\ st2.result THEN "true" ELSE "false",
                         st2.log)
                   EXCEPT !.calls = st2.calls]

\* ConfluenceClient.updatePageLabels; results is the label list of the server's
\* response, removeResponses and addResponses the response to each sub-call
updatePageLabels(client, p, s, results, response, removeResponses, addResponses) ==
    IF ~isValidPageObj(client, p) THEN Outcome(p, s, "throw", <<>>)
    ELSE IF ~HasId(p) THEN Outcome(p, s, "throw", <<>>)
    ELSE
      LET request == <<Request("get", "label", <<>>, response)>>
      IN  IF response.fault = "transport" THEN Outcome(p, s, "false", request)
          ELSE IF response.status # 200 THEN Outcome(p, s, "false", request)
          ELSE IF response.fault = "body" THEN Outcome(p, s, "false", request)
          ELSE
            LET intSize == Len(results)
                arrRemoteLabels == IF intSize > 0 THEN results ELSE <<>>
                arrLocalLabels == IF p.arrLabels # None THEN Val(p.arrLabels) ELSE <<>>
                st0 == [page |-> p, server |-> s, log |-> request,
                        local |-> arrLocalLabels, shared |-> p.arrLabels # None,
                        result |-> TRUE, threw |-> FALSE, calls |-> <<>>]
                st1 == removeRemoteLabels(client, st0, arrRemoteLabels, 1, removeResponses)
                st2 == addLocalLabels(client, st1, arrRemoteLabels, 1, addResponses)
            IN  [Outcome(st2.page, st2.server,
                         IF ~st2.threw /\ st2.result THEN "true" ELSE "false",
                         st2.log)
                   EXCEPT !.calls = st2.calls]

\* String.prototype.indexOf(name) != -1 for a field name of one character
mentions(strAllowedFields, name) ==
    \E i \in 1..Len(strAllowedFields) : strAllowedFields[i] = name

\* ConfluenceClient.loadScaffoldingData: the fields of the server's form, those
\* named in strAllowedFields when it is a non-empty string; data is None for the
\* null it returns on failure
loadScaffoldingData(s, strPageId, strAllowedFields, response) ==
    IF ~isValidInteger(strPageId) THEN [threw |-> TRUE, data |-> None, log |-> <<>>]
    ELSE
      LET request == <<Request("get", "scaffolding", <<>>, response)>>
          jsonResponse == s.scaffolding
          allowed(field) == mentions(Val(strAllowedFields), field.name)
      IN  IF response.fault # "none" \/ response.status # 200
          THEN [threw |-> FALSE, data |-> None, log |-> request]
          ELSE [threw |-> FALSE,
                data |-> IF strAllowedFields # None /\ Len(Val(strAllowedFields)) > 0
                         THEN Some(SelectSeq(jsonResponse, allowed))
                         ELSE Some(jsonResponse),
                log |-> request]

\* ConfluenceClient.updateScaffoldingData
updateScaffoldingData(client, p, s, response) ==
    IF ~isValidPageObj(client, p) THEN Outcome(p, s, "throw", <<>>)
    ELSE IF ~HasId(p) THEN Outcome(p, s, "throw", <<>>)
    ELSE IF ~TruthyObj(p.arrScaffoldingData) THEN Outcome(p, s, "throw", <<>>)
    ELSE
      LET request == <<Request("put", "scaffolding", <<>>, response)>>
      IN  IF response.fault = "transport" THEN Outcome(p, s, "false", request)
          ELSE IF response.status = 200
          THEN LET s2 == [s EXCEPT !.scaffolding = Val(p.arrScaffoldingData),
                                   !.version = @ + 1]
               IN  IF ~HasVersionNumber(p)
                   THEN Outcome(p, s2, "false", request)
                   ELSE Outcome(increaseVersionNumber(p), s2, "true", request)
          ELSE IF response.status = 304 THEN Outcome(p, s, "true", request)
          ELSE Outcome(p, s, "false", request)

\* createPage without setStatus("current")
createPageKeepsStatus(client, p, s, response, labelResponse) ==
    IF ~isValidPageObj(client, p) THEN Outcome(p, s, "throw", <<>>)
    ELSE IF ~(/\ TruthySeq(p.strParentPageId)
              /\ TruthyStr(p.strTitle)
              /\ TruthySeq(p.strSpaceKey)) THEN Outcome(p, s, "throw", <<>>)
    ELSE
      LET payload == stringify(p, TRUE, FALSE)
          request == <<Request("post", "content", <<>>, response)>>
      IN  IF response.fault # "none" \/ response.status # 200
          THEN Outcome(p, s, "false", request)
          ELSE
            LET created == ServerCreate(payload)
                objReturnedPage == Decode(client, ServerJson(created, <<>>))
                strPageId == Val(objReturnedPage.strId)
            IN  IF ~isValidInteger(strPageId) \/ setIdRefuses(p, strPageId)
                THEN Outcome(p, s, "false", request)
                ELSE
                  LET p2 == setVersionNumber(setId(p, strPageId),
                                             Val(objReturnedPage.intVersionNumber))
                  IN  IF p2.arrLabels = None THEN Outcome(p2, created, "true", request)
                      ELSE
                        LET o == addPageLabels(client, p2, created, Val(p2.arrLabels),
                                               labelResponse)
                        IN  Outcome(o.page, o.server,
                                    IF o.result = "throw" THEN "false" ELSE "true",
                                    request \o o.log)

\* createPage that stores the returned id without asking setId
createPageOverId(client, p, s, response, labelResponse) ==
    IF ~isValidPageObj(client, p) THEN Outcome(p, s, "throw", <<>>)
    ELSE IF ~(/\ TruthySeq(p.strParentPageId)
              /\ TruthyStr(p.strTitle)
              /\ TruthySeq(p.strSpaceKey)) THEN Outcome(p, s, "throw", <<>>)
    ELSE
      LET payload == stringify(p, TRUE, FALSE)
          request == <<Request("post", "content", <<>>, response)>>
      IN  IF response.fault # "none" \/ response.status # 200
          THEN Outcome(p, s, "false", request)
          ELSE
            LET created == ServerCreate(payload)
                objReturnedPage == Decode(client, ServerJson(created, <<>>))
                strPageId == Val(objReturnedPage.strId)
            IN  IF ~isValidInteger(strPageId)
                THEN Outcome(p, s, "false", request)
                ELSE
                  LET p2 == setVersionNumber(setStatus(setId(p, strPageId), "current"),
                                             Val(objReturnedPage.intVersionNumber))
                  IN  IF p2.arrLabels = None THEN Outcome(p2, created, "true", request)
                      ELSE
                        LET o == addPageLabels(client, p2, created, Val(p2.arrLabels),
                                               labelResponse)
                        IN  Outcome(o.page, o.server,
                                    IF o.result = "throw" THEN "false" ELSE "true",
                                    request \o o.log)

\* ConfluenceClient.createPage; response answers the POST of the page and
\* labelResponse the POST of its labels.  After a create that succeeded the model's
\* server is the page created.
createPage(client, p, s, response, labelResponse) ==
    IF ~isValidPageObj(client, p) THEN Outcome(p, s, "throw", <<>>)
    ELSE IF ~(/\ TruthySeq(p.strParentPageId)
              /\ TruthyStr(p.strTitle)
              /\ TruthySeq(p.strSpaceKey)) THEN Outcome(p, s, "throw", <<>>)
    ELSE
      LET payload == stringify(p, TRUE, FALSE)
          request == <<Request("post", "content", <<>>, response)>>
      IN  IF response.fault # "none" \/ response.status # 200
          THEN Outcome(p, s, "false", request)
          ELSE
            LET created == ServerCreate(payload)
                objReturnedPage == Decode(client, ServerJson(created, <<>>))
                strPageId == Val(objReturnedPage.strId)
            IN  IF ~isValidInteger(strPageId) \/ setIdRefuses(p, strPageId)
                THEN Outcome(p, s, "false", request)
                ELSE
                  LET p2 == setVersionNumber(setStatus(setId(p, strPageId), "current"),
                                             Val(objReturnedPage.intVersionNumber))
                  IN  IF p2.arrLabels = None THEN Outcome(p2, created, "true", request)
                      ELSE
                        LET o == addPageLabels(client, p2, created, Val(p2.arrLabels),
                                               labelResponse)
                        IN  Outcome(o.page, o.server,
                                    IF o.result = "throw" THEN "false" ELSE "true",
                                    request \o o.log)

\* removePage without the test of the page's status
removePageAgain(client, p, s, response) ==
    IF ~isValidPageObj(client, p) THEN Outcome(p, s, "throw", <<>>)
    ELSE IF ~HasId(p) THEN Outcome(p, s, "throw", <<>>)
    ELSE
      LET request == <<Request("delete", "content", <<>>, response)>>
      IN  IF response.fault = "transport" THEN Outcome(p, s, "false", request)
          ELSE IF response.status = 200 \/ response.status = 204
          THEN Outcome(setStatus(p, "trashed"), ServerTrash(s), "true", request)
          ELSE Outcome(p, s, "false", request)

\* removePage that takes status 200 alone for a removal
removePageOn200(client, p, s, response) ==
    IF ~isValidPageObj(client, p) THEN Outcome(p, s, "throw", <<>>)
    ELSE IF ~HasId(p) THEN Outcome(p, s, "throw", <<>>)
    ELSE IF p.strStatus = Some("trashed") THEN Outcome(p, s, "throw", <<>>)
    ELSE
      LET request == <<Request("delete", "content", <<>>, response)>>
      IN  IF response.fault = "transport" THEN Outcome(p, s, "false", request)
          ELSE IF response.status = 200
          THEN Outcome(setStatus(p, "trashed"), ServerTrash(s), "true", request)
          ELSE Outcome(p, s, "false", request)

\* ConfluenceClient.removePage
removePage(client, p, s, response) ==
    IF ~isValidPageObj(client, p) THEN Outcome(p, s, "throw", <<>>)
    ELSE IF ~HasId(p) THEN Outcome(p, s, "throw", <<>>)
    ELSE IF p.strStatus = Some("trashed") THEN Outcome(p, s, "throw", <<>>)
    ELSE
      LET request == <<Request("delete", "content", <<>>, response)>>
      IN  IF response.fault = "transport" THEN Outcome(p, s, "false", request)
          ELSE IF response.status = 200 \/ response.status = 204
          THEN Outcome(setStatus(p, "trashed"), ServerTrash(s), "true", request)
          ELSE Outcome(p, s, "false", request)

-----------------------------------------------------------------------------
(* The update methods of ConfluencePage, which call the client the page    *)
(* was built from when the matching dirty flags ask for it.                *)

\* ConfluencePage.loadScaffoldingData
page_loadScaffoldingData(p, s, strAllowedFields, response) ==
    IF ~HasId(p) THEN Outcome(p, s, "throw", <<>>)
    ELSE
      LET strPageId == IF p.strId # None THEN Val(p.strId) ELSE DigitsOf(Val(p.numericId))
          loaded == loadScaffoldingData(s, strPageId, strAllowedFields, response)
      IN  IF loaded.threw THEN Outcome(p, s, "throw", <<>>)
          ELSE IF loaded.data # None
          THEN Outcome(setScaffoldingData(p, Val(loaded.data)), s, "true", loaded.log)
          ELSE Outcome(p, s, "false", loaded.log)

\* ConfluencePage.updatePageData
page_updatePageData(p, s, suppressNotifications, response) ==
    IF p.hasBodyChanged \/ p.hasParentPageIdChanged \/ p.hasSpaceKeyChanged \/ p.hasTitleChanged
    THEN updatePageData(p.refConfluenceClient, p, s, suppressNotifications, response)
    ELSE Outcome(p, s, "true", <<>>)

\* updatePageLabels without the test of the label flag
page_updatePageLabelsUnguarded(p, s, results, response, removeResponses, addResponses) ==
    updatePageLabels(p.refConfluenceClient, p, s, results, response,
                     removeResponses, addResponses)

\* ConfluencePage.updatePageLabels
page_updatePageLabels(p, s, results, response, removeResponses, addResponses) ==
    IF p.haveLabelsChanged
    THEN updatePageLabels(p.refConfluenceClient, p, s, results, response,
                          removeResponses, addResponses)
    ELSE Outcome(p, s, "true", <<>>)

\* ConfluencePage.updateScaffoldingData
page_updateScaffoldingData(p, s, response) ==
    IF p.hasScaffoldingDataChanged
    THEN updateScaffoldingData(p.refConfluenceClient, p, s, response)
    ELSE Outcome(p, s, "true", <<>>)

\* update with its three steps joined by & in place of &&: every step runs
page_updateEveryStep(p, s, suppressNotifications, env) ==
    LET o1 == page_updatePageData(p, s, suppressNotifications, env.put)
        o2 == page_updatePageLabels(o1.page, o1.server, env.results, env.list,
                                    env.remove, env.add)
        o3 == page_updateScaffoldingData(o2.page, o2.server, env.scaffolding)
        results == {o1.result, o2.result, o3.result}
    IN  [o3 EXCEPT !.log = o1.log \o o2.log \o o3.log,
                   !.calls = o2.calls,
                   !.result = IF "throw" \in results THEN "throw"
                              ELSE IF "false" \in results THEN "false" ELSE "true"]

\* ConfluencePage.update: the three updates joined by &&, so that a step runs only
\* when the steps before it returned true; env holds the server's responses
page_update(p, s, suppressNotifications, env) ==
    LET o1 == page_updatePageData(p, s, suppressNotifications, env.put)
    IN  IF o1.result # "true" THEN o1
        ELSE
          LET o2 == page_updatePageLabels(o1.page, o1.server, env.results, env.list,
                                          env.remove, env.add)
              log2 == o1.log \o o2.log
          IN  IF o2.result # "true" THEN [o2 EXCEPT !.log = log2]
              ELSE
                LET o3 == page_updateScaffoldingData(o2.page, o2.server, env.scaffolding)
                IN  [o3 EXCEPT !.log = log2 \o o3.log, !.calls = o2.calls]

\* the responses to GET /rest/api/content/{id} and to GET /rest/api/content?title=
PageGetResponses ==
    {StatusResponse(200), BadBody(200), StatusResponse(404), StatusResponse(500),
     TransportError}

\* ConfluenceClient.loadPageDataById; results is the label list of the response
loadPageDataById(client, p, s, strPageId, response, results) ==
    IF ~isValidInteger(strPageId) THEN Outcome(p, s, "throw", <<>>)
    ELSE
      LET request == <<Request("get", "content", <<>>, response)>>
      IN  IF response.fault = "none" /\ response.status = 200
          THEN Outcome(Decode(client, ServerJson(s, results)), s, "page", request)
          ELSE Outcome(p, s, "null", request)

\* ConfluenceClient.loadPageDataByTitle; found tells whether results of the
\* response holds the page
loadPageDataByTitle(client, p, s, strSpaceKey, strPageTitle, response, results, found) ==
    IF ~isValidSpaceKey(strSpaceKey) THEN Outcome(p, s, "throw", <<>>)
    ELSE IF strPageTitle = "" THEN Outcome(p, s, "throw", <<>>)
    ELSE
      LET request == <<Request("get", "content", <<>>, response)>>
      IN  IF response.fault = "none" /\ response.status = 200 /\ found
          THEN Outcome(Decode(client, ServerJson(s, results)), s, "page", request)
          ELSE Outcome(p, s, "null", request)

\* the locals of the loop of searchPages and loadPageChildren (arrPages,
\* intStartAt) and the server it talks to: the pages that match are the first hits
\* of HitList, delivered cap at a time from the offset asked for; an endless
\* server answers every request with the first hit
NoPaging ==
    [pc |-> "idle", arrPages |-> <<>>, intStartAt |-> 0,
     hits |-> 0, cap |-> 1, endless |-> FALSE]

HitList == [i \in 1..MaxHits |-> <<<<"1", "2", "3", "4", "5", "6", "7", "8", "9">>[i]>>]

\* the page of the server with the given id, as an element of results
HitJson(strPageId) ==
    ServerJson([id |-> strPageId, status |-> "current", title |-> "Draft",
                spaceKey |-> <<"d", "e", "v">>, parentId |-> <<"7">>, body |-> "",
                version |-> 1, labels |-> {}, scaffolding |-> <<>>], <<>>)

\* the results of the server's answer to a request for the items from offset start
ServerResults(st, start) ==
    IF st.endless THEN <<HitList[1]>>
    ELSE [i \in 1..(IF st.hits - start < 0 THEN 0
                    ELSE IF st.hits - start < st.cap THEN st.hits - start
                    ELSE st.cap) |-> HitList[start + i]]

\* the responses to a request of the loop
PagingResponses(st) ==
    IF st.endless THEN {StatusResponse(200)}
    ELSE {StatusResponse(200), BadBody(200), StatusResponse(500), TransportError}

\* a request of the loop: its offset and the results of the response
PagingRequest(endpoint, start, results, response) ==
    [method |-> "get", endpoint |-> endpoint, names |-> <<>>,
     status |-> response.status, fault |-> response.fault,
     start |-> start, results |-> results]

\* new ConfluencePage(this, jsonResponse.results[i]) for every i
DecodeAll(client, results) ==
    [i \in 1..Len(results) |-> Decode(client, HitJson(results[i]))]

\* the loop advances by one instead of by the number of results
pagingRequestByOne(client, st, endpoint, response) ==
    LET results == IF response = StatusResponse(200)
                   THEN ServerResults(st, st.intStartAt) ELSE <<>>
        request == PagingRequest(endpoint, st.intStartAt, results, response)
        intSize == Len(results)
    IN  IF response.fault # "none" \/ response.status # 200
        THEN [paging |-> [st EXCEPT !.pc = "done"], result |-> "null", request |-> request]
        ELSE IF intSize = 0
        THEN [paging |-> [st EXCEPT !.pc = "done"], result |-> "list", request |-> request]
        ELSE [paging |-> [st EXCEPT !.arrPages = @ \o DecodeAll(client, results),
                                    !.intStartAt = @ + 1],
              result |-> "pending", request |-> request]

\* the loop returns what it has when a request fails
pagingRequestPartial(client, st, endpoint, response) ==
    LET results == IF response = StatusResponse(200)
                   THEN ServerResults(st, st.intStartAt) ELSE <<>>
        request == PagingRequest(endpoint, st.intStartAt, results, response)
        intSize == Len(results)
    IN  IF response.fault # "none" \/ response.status # 200
        THEN [paging |-> [st EXCEPT !.pc = "done"], result |-> "list", request |-> request]
        ELSE IF intSize = 0
        THEN [paging |-> [st EXCEPT !.pc = "done"], result |-> "list", request |-> request]
        ELSE [paging |-> [st EXCEPT !.arrPages = @ \o DecodeAll(client, results),
                                    !.intStartAt = @ + intSize],
              result |-> "pending", request |-> request]

\* the loop ends at a page with fewer than two results
pagingRequestShortPageEnds(client, st, endpoint, response) ==
    LET results == IF response = StatusResponse(200)
                   THEN ServerResults(st, st.intStartAt) ELSE <<>>
        request == PagingRequest(endpoint, st.intStartAt, results, response)
        intSize == Len(results)
    IN  IF response.fault # "none" \/ response.status # 200
        THEN [paging |-> [st EXCEPT !.pc = "done"], result |-> "null", request |-> request]
        ELSE IF intSize < 2
        THEN [paging |-> [st EXCEPT !.pc = "done",
                                    !.arrPages = @ \o DecodeAll(client, results)],
              result |-> "list", request |-> request]
        ELSE [paging |-> [st EXCEPT !.arrPages = @ \o DecodeAll(client, results),
                                    !.intStartAt = @ + intSize],
              result |-> "pending", request |-> request]

\* one pass of the while loop of ConfluenceClient.searchPages (lines 117-153) and
\* of ConfluenceClient.loadPageChildren (lines 184-217): the request from offset
\* intStartAt, then the break at an empty page, the results pushed and the offset
\* advanced, or null returned; a thrown error is caught and null returned
pagingRequest(client, st, endpoint, response) ==
    LET results == IF response = StatusResponse(200)
                   THEN ServerResults(st, st.intStartAt) ELSE <<>>
        request == PagingRequest(endpoint, st.intStartAt, results, response)
        intSize == Len(results)
    IN  IF response.fault # "none" \/ response.status # 200
        THEN [paging |-> [st EXCEPT !.pc = "done"], result |-> "null", request |-> request]
        ELSE IF intSize = 0
        THEN [paging |-> [st EXCEPT !.pc = "done"], result |-> "list", request |-> request]
        ELSE [paging |-> [st EXCEPT !.arrPages = @ \o DecodeAll(client, results),
                                    !.intStartAt = @ + intSize],
              result |-> "pending", request |-> request]

\* ConfluenceClient.searchPages, line 100: typeof strCQL == "string" and
\* strCQL.trim().length > 5
isValidCQL(strCQL) == Len(trim(strCQL)) > 5

-----------------------------------------------------------------------------
(* The state machine.  Every action is one call of a method: it replaces    *)
(* page, server and log by what the call leaves, and records the call in    *)
(* last together with the page and the server as they were before it and    *)
(* the sub-calls it made.  A call that would take the server's version past *)
(* MaxVersion is left out.  The methods are synchronous: none is called     *)
(* while the loop of searchPages or loadPageChildren runs.                  *)

Call(op, arg, o) ==
    /\ paging.pc # "loop"
    /\ o.server.version <= MaxVersion
    /\ paging' = NoPaging
    /\ page' = o.page
    /\ server' = o.server
    /\ log' = o.log
    /\ last' = [op |-> op, arg |-> arg, result |-> o.result,
                page |-> page, server |-> server, calls |-> o.calls]

\* the outcome of a ConfluencePage method that issues no request
Local(p, result) == Outcome(p, server, result, <<>>)

\* the server's page when the client loads it
InitialServer(labels) ==
    [id |-> ThePageId, status |-> "current", title |-> "Draft",
     spaceKey |-> <<"d", "e", "v">>, parentId |-> <<"7">>, body |-> "<p>x</p>",
     version |-> 1, labels |-> labels, scaffolding |-> <<>>]

\* ConfluenceClient.loadPageDataById answered with status 200: the page object is
\* the decoded response
Loaded(labelSets) ==
    \E labels \in labelSets :
      \E results \in Orders(labels) :
        /\ server = InitialServer(labels)
        /\ page = Decode(TheClient, ServerJson(server, results))
        /\ log = <<Request("get", "content", <<>>, StatusResponse(200))>>
        /\ last = [op |-> "loadPageDataById", arg |-> ThePageId, result |-> "page",
                   page |-> page, server |-> server, calls |-> <<>>]
        /\ paging = NoPaging

\* ConfluencePage.setTitle called with one of titles
SetTitle(titles) ==
    \E v \in titles :
      Call("setTitle", v,
           IF v # "" THEN Local(setTitle(page, v), "void") ELSE Local(page, "throw"))

\* ConfluencePage.setSpaceKey called with one of keys
SetSpaceKey(keys) ==
    \E v \in keys :
      Call("setSpaceKey", v,
           IF isValidSpaceKey(v) THEN Local(setSpaceKey(page, v), "void")
           ELSE Local(page, "throw"))

\* ConfluencePage.setParentPageId called with one of ids
SetParentPageId(ids) ==
    \E v \in ids :
      Call("setParentPageId", v,
           IF isValidInteger(v) THEN Local(setParentPageId(page, v), "void")
           ELSE Local(page, "throw"))

\* ConfluencePage.setBody called with one of bodies
SetBody(bodies) ==
    \E v \in bodies :
      Call("setBody", v, Local(setBody(page, v), "void"))

\* ConfluencePage.setVersionNumber called with one of numbers
SetVersionNumber(numbers) ==
    \E v \in numbers :
      Call("setVersionNumber", v,
           IF isValidIntegerNumber(v) THEN Local(setVersionNumber(page, v), "void")
           ELSE Local(page, "throw"))

\* ConfluencePage.addLabel called with one of names
AddLabel(names) ==
    \E name \in names :
      Call("addLabel", name,
           IF isValidLabelName(name) THEN Local(addLabel(page, name), "void")
           ELSE Local(page, "throw"))

\* ConfluencePage.hasLabel called with one of names
HasLabel(names) ==
    \E name \in names :
      Call("hasLabel", name,
           IF isValidLabelName(name)
           THEN Local(page, IF hasLabel(page, name) THEN "true" ELSE "false")
           ELSE Local(page, "throw"))

\* ConfluencePage.removeLabel called with one of names
RemoveLabel(names) ==
    \E name \in names :
      Call("removeLabel", name,
           IF isValidLabelName(name) THEN Local(removeLabel(page, name), "void")
           ELSE Local(page, "throw"))

\* ConfluencePage.setScaffoldingValue called with one of fields and one of values
SetScaffoldingValue(fields, values) ==
    \E name \in fields, value \in values :
      Call("setScaffoldingValue", name,
           Local(setScaffoldingValue(page, name, value), "void"))

\* ConfluencePage.setId called with one of ids
SetId(ids) ==
    \E v \in ids :
      Call("setId", v,
           IF isValidInteger(v) /\ ~setIdRefuses(page, v)
           THEN Local(setId(page, v), "void")
           ELSE Local(page, "throw"))

\* ConfluencePage.setId called with a number, one of numbers; the argument is
\* recorded with the word number before it
SetIdNumber(numbers) ==
    \E v \in numbers :
      Call("setId", <<"number", v>>,
           IF isValidIntegerNumber(v) /\ ~setIdNumberRefuses(page, v)
           THEN Local(setIdNumber(page, v), "void")
           ELSE Local(page, "throw"))

\* the server answers an update with status 200 only when it accepts it
CanAnswerPut(p, s, response) ==
    response.status = 200 => PutAccepted(s, stringify(p, FALSE, FALSE))

\* ConfluenceClient.updatePageData called on the page
UpdatePageData ==
    \E suppressNotifications \in BOOLEAN, response \in PutResponses :
      /\ CanAnswerPut(page, server, response)
      /\ Call("updatePageData", suppressNotifications,
              updatePageData(TheClient, page, server, suppressNotifications, response))

\* the names updatePageLabels may pass to removePageLabel and to addPageLabels
RemoveCandidates(p, s) ==
    s.labels \ (IF p.arrLabels # None THEN Range(Val(p.arrLabels)) ELSE {})

AddCandidates(p, s) ==
    LET local == IF p.arrLabels # None THEN Range(Val(p.arrLabels)) ELSE {}
    IN  (local \cup {trim(toLowerCase(n)) : n \in local}) \ s.labels

\* the label list of the server's response, and the responses to the sub-calls of
\* updatePageLabels; there are none to choose when the label list is not delivered
LabelLists(s, response) ==
    IF response = StatusResponse(200) THEN Orders(s.labels) ELSE {<<>>}

RemoveResponses(p, s, response) ==
    IF response = StatusResponse(200)
    THEN [RemoveCandidates(p, s) -> LabelRemoveResponses]
    ELSE {<<>>}

AddResponses(p, s, response) ==
    IF response = StatusResponse(200)
    THEN [AddCandidates(p, s) -> LabelAddResponses]
    ELSE {<<>>}

\* ConfluenceClient.updatePageLabels called on the page
UpdatePageLabels ==
    \E response \in LabelListResponses :
      \E results \in LabelLists(server, response),
         removeResponses \in RemoveResponses(page, server, response),
         addResponses \in AddResponses(page, server, response) :
        Call("updatePageLabels", <<>>,
             updatePageLabels(TheClient, page, server, results, response,
                              removeResponses, addResponses))

\* The write methods of ConfluenceClient, each called on one of clients with the
\* page; last.arg is the client called.

ClientUpdatePageData(clients) ==
    \E client \in clients, suppressNotifications \in BOOLEAN, response \in PutResponses :
      /\ CanAnswerPut(page, server, response)
      /\ Call("ConfluenceClient.updatePageData", client,
              updatePageData(client, page, server, suppressNotifications, response))

ClientUpdateScaffoldingData(clients) ==
    \E client \in clients, response \in ScaffoldingPutResponses :
      Call("ConfluenceClient.updateScaffoldingData", client,
           updateScaffoldingData(client, page, server, response))

ClientCreatePage(clients) ==
    \E client \in clients, response \in CreateResponses, labelResponse \in LabelAddResponses :
      Call("ConfluenceClient.createPage", client,
           createPage(client, page, server, response, labelResponse))

ClientAddPageLabels(clients, names) ==
    \E client \in clients, name \in names, response \in LabelAddResponses :
      Call("ConfluenceClient.addPageLabels", client,
           addPageLabels(client, page, server, <<name>>, response))

ClientRemovePageLabel(clients, names) ==
    \E client \in clients, name \in names, response \in LabelRemoveResponses :
      Call("ConfluenceClient.removePageLabel", client,
           removePageLabel(client, page, server, name, response))

ClientUpdatePageLabels(clients) ==
    \E client \in clients, response \in LabelListResponses :
      \E results \in LabelLists(server, response),
         removeResponses \in RemoveResponses(page, server, response),
         addResponses \in AddResponses(page, server, response) :
        Call("ConfluenceClient.updatePageLabels", client,
             updatePageLabels(client, page, server, results, response,
                              removeResponses, addResponses))

ClientRemovePage(clients) ==
    \E client \in clients, response \in RemovePageResponses :
      Call("ConfluenceClient.removePage", client,
           removePage(client, page, server, response))

\* another user of the Confluence server adds one of names to the page's labels
\* or removes it
ExternalLabelChange(names) ==
    \E name \in names :
      /\ server' = [server EXCEPT !.labels = IF name \in @ THEN @ \ {name} ELSE @ \cup {name}]
      /\ Cardinality(server'.labels) <= MaxLabels
      /\ last' = [op |-> "external", arg |-> name, result |-> "void",
                  page |-> page, server |-> server, calls |-> <<>>]
      /\ log' = <<>>
      /\ UNCHANGED <<page, paging>>

\* the queries passed to searchPages; the first two are refused
CqlInputs ==
    {<<"i", "d", "=", "1">>,
     <<" ", "i", "d", "=", "1", " ">>,
     <<"i", "d", " ", "=", " ", "1">>}

\* the servers the loop may talk to
PagingServers ==
    {st \in [pc : {"loop"}, arrPages : {<<>>}, intStartAt : {0},
             hits : 0..MaxHits, cap : {1, 2}, endless : BOOLEAN] :
       st.endless => (st.hits = 1 /\ st.cap = 1)}

\* a server with two matches that it delivers one at a time
SmallServer ==
    {st \in PagingServers : st.hits = 2 /\ st.cap = 1 /\ ~st.endless}

\* a call of searchPages or loadPageChildren with one of servers behind the
\* endpoint: refused, or the loop entered
PagingCall(op, arg, valid, servers) ==
    /\ paging.pc # "loop"
    /\ log' = <<>>
    /\ last' = [op |-> op, arg |-> arg, result |-> IF valid THEN "pending" ELSE "throw",
                page |-> page, server |-> server, calls |-> <<>>]
    /\ IF valid
       THEN \E st \in servers : paging' = st
       ELSE paging' = NoPaging
    /\ UNCHANGED <<page, server>>

\* ConfluenceClient.searchPages called with one of cqls
SearchPages(cqls, servers) ==
    \E strCQL \in cqls :
      PagingCall("ConfluenceClient.searchPages", strCQL, isValidCQL(strCQL), servers)

\* ConfluenceClient.loadPageChildren called with one of ids
LoadPageChildren(ids, servers) ==
    \E strParentId \in ids :
      PagingCall("ConfluenceClient.loadPageChildren", strParentId,
                 isValidInteger(strParentId), servers)

\* one pass of the loop of the call that is running
PagingStep ==
    /\ paging.pc = "loop"
    /\ paging.intStartAt < MaxStart
    /\ \E response \in PagingResponses(paging) :
         LET o == pagingRequest(TheClient, paging,
                                IF last.op = "ConfluenceClient.searchPages"
                                THEN "search" ELSE "child", response)
         IN  /\ paging' = o.paging
             /\ log' = Append(log, o.request)
             /\ last' = [last EXCEPT !.result = o.result]
    /\ UNCHANGED <<page, server>>

\* ConfluenceClient.loadPageDataById called with one of ids; the page it returns
\* takes the place of the caller's page.  The server knows its own page only.
LoadPageDataById(ids) ==
    \E strPageId \in ids, response \in PageGetResponses :
      \E results \in Orders(server.labels) :
        /\ response.status = 200 => strPageId = server.id
        /\ response.status = 404 => strPageId # server.id
        /\ Call("ConfluenceClient.loadPageDataById", strPageId,
                loadPageDataById(TheClient, page, server, strPageId, response, results))

\* ConfluenceClient.loadPageDataByTitle called with one of keys and one of titles
LoadPageDataByTitle(keys, titles) ==
    \E strSpaceKey \in keys, strPageTitle \in titles, response \in PageGetResponses \ {StatusResponse(404)} :
      \E results \in Orders(server.labels) :
        Call("ConfluenceClient.loadPageDataByTitle", <<strSpaceKey, strPageTitle>>,
             loadPageDataByTitle(TheClient, page, server, strSpaceKey, strPageTitle,
                                 response, results,
                                 strSpaceKey = server.spaceKey /\ strPageTitle = server.title))

\* ConfluenceClient.loadScaffoldingData called with one of ids and one of filters
ClientLoadScaffoldingData(ids, filters) ==
    \E strPageId \in ids, strAllowedFields \in filters, response \in ScaffoldingGetResponses :
      LET loaded == loadScaffoldingData(server, strPageId, strAllowedFields, response)
      IN  Call("ConfluenceClient.loadScaffoldingData", strPageId,
               Outcome(page, server,
                       IF loaded.threw THEN "throw"
                       ELSE IF loaded.data = None THEN "null" ELSE "data",
                       loaded.log))

\* the entity-side methods called on the page
PageUpdatePageData ==
    \E suppressNotifications \in BOOLEAN, response \in PutResponses :
      /\ CanAnswerPut(page, server, response)
      /\ Call("page.updatePageData", suppressNotifications,
              page_updatePageData(page, server, suppressNotifications, response))

PageUpdatePageLabels ==
    \E response \in LabelListResponses :
      \E results \in LabelLists(server, response),
         removeResponses \in RemoveResponses(page, server, response),
         addResponses \in AddResponses(page, server, response) :
        Call("page.updatePageLabels", <<>>,
             page_updatePageLabels(page, server, results, response,
                                   removeResponses, addResponses))

PageUpdateScaffoldingData ==
    \E response \in ScaffoldingPutResponses :
      Call("page.updateScaffoldingData", <<>>,
           page_updateScaffoldingData(page, server, response))

\* ConfluencePage.loadScaffoldingData called with one of filters
PageLoadScaffoldingData(filters) ==
    \E strAllowedFields \in filters, response \in ScaffoldingGetResponses :
      Call("page.loadScaffoldingData", strAllowedFields,
           page_loadScaffoldingData(page, server, strAllowedFields, response))

\* ConfluencePage.update called on the page
PageUpdate ==
    \E suppressNotifications \in BOOLEAN,
       put \in PutResponses,
       list \in LabelListResponses,
       scaffolding \in ScaffoldingPutResponses :
      \E results \in LabelLists(server, list),
         remove \in RemoveResponses(page, server, list),
         add \in AddResponses(page, server, list) :
        /\ CanAnswerPut(page, server, put)
        /\ Call("update", suppressNotifications,
                page_update(page, server, suppressNotifications,
                            [put |-> put, results |-> results, list |-> list,
                             remove |-> remove, add |-> add,
                             scaffolding |-> scaffolding]))

Init == Loaded({labels \in SUBSET ServerLabelNames : Cardinality(labels) <= MaxLabels})

Next ==
    \/ SetTitle(TitleInputs)
    \/ SetSpaceKey(SpaceKeyInputs)
    \/ SetParentPageId(PageIdInputs)
    \/ SetBody(Bodies)
    \/ SetVersionNumber(VersionInputs)
    \/ AddLabel(LabelInputs)
    \/ RemoveLabel(LabelInputs)
    \/ SetScaffoldingValue(FieldNames, FieldValues)
    \/ UpdatePageData
    \/ UpdatePageLabels
    \/ ExternalLabelChange(ServerLabelNames)
    \/ PageUpdate

Spec == Init /\ [][Next]_vars

\* the page loaded from a server that holds no label for it
InitPlain == Loaded({{}})

\* the setters of the page data alone
NextSetters ==
    \/ SetTitle(TitleInputs)
    \/ SetSpaceKey(SpaceKeyInputs)
    \/ SetParentPageId(PageIdInputs)
    \/ SetBody(Bodies)

SpecSetters == InitPlain /\ [][NextSetters]_vars

\* the methods that set a dirty flag, and ConfluencePage.setVersionNumber
NextVersion ==
    \/ SetTitle(Titles)
    \/ SetSpaceKey(SpaceKeys)
    \/ SetParentPageId(PageIds)
    \/ SetBody(Bodies)
    \/ AddLabel({<<"a">>})
    \/ SetScaffoldingValue({"f"}, {"v"})
    \/ SetVersionNumber(VersionInputs)

SpecVersion == InitPlain /\ [][NextVersion]_vars

\* the setters of the page data and ConfluenceClient.updatePageData
NextSave ==
    \/ SetTitle(Titles)
    \/ SetSpaceKey(SpaceKeys)
    \/ SetParentPageId(PageIds)
    \/ SetBody(Bodies)
    \/ UpdatePageData

SpecSave == InitPlain /\ [][NextSave]_vars

\* the label methods of the page, ConfluenceClient.updatePageLabels and the
\* server's other users
NextLabels ==
    \/ AddLabel(LabelInputs)
    \/ RemoveLabel(LabelInputs)
    \/ ExternalLabelChange(ServerLabelNames)
    \/ UpdatePageLabels

SpecLabels == Init /\ [][NextLabels]_vars

\* ConfluencePage.update and the methods that set the flags it reads
NextSync ==
    \/ SetTitle(Titles)
    \/ AddLabel({<<"a">>})
    \/ SetScaffoldingValue({"f"}, {"v"})
    \/ PageUpdate

SpecSync == InitPlain /\ [][NextSync]_vars

\* the entity-side save methods, loadScaffoldingData and the methods that set the
\* flags they read
NextEntity ==
    \/ SetTitle(Titles)
    \/ AddLabel({<<"a">>})
    \/ SetScaffoldingValue({"f"}, {"v"})
    \/ PageLoadScaffoldingData(AllowedFieldInputs)
    \/ PageUpdatePageData
    \/ PageUpdatePageLabels
    \/ PageUpdateScaffoldingData

SpecEntity == InitPlain /\ [][NextEntity]_vars

\* a page object built without a response, while the server holds page 100
InitFresh ==
    /\ server = InitialServer({})
    /\ page = NewPage(TheClient)
    /\ log = <<>>
    /\ last = [op |-> "new ConfluencePage", arg |-> TheClient, result |-> "page",
               page |-> page, server |-> server, calls |-> <<>>]
    /\ paging = NoPaging

\* the write methods of two clients, called with a page loaded by the first
NextClients ==
    \/ SetScaffoldingValue({"f"}, {"v"})
    \/ ClientUpdatePageData(Clients)
    \/ ClientUpdateScaffoldingData(Clients)
    \/ ClientCreatePage(Clients)
    \/ ClientAddPageLabels(Clients, {<<"a">>})
    \/ ClientRemovePageLabel(Clients, {<<"a">>})
    \/ ClientUpdatePageLabels(Clients)
    \/ ClientRemovePage(Clients)

SpecClients == InitPlain /\ [][NextClients]_vars

\* ConfluenceClient.removePage among other calls on a loaded page
NextRemove ==
    \/ SetTitle(Titles)
    \/ AddLabel({<<"a">>})
    \/ ClientUpdatePageData({TheClient})
    \/ ClientRemovePage({TheClient})

SpecRemove == InitPlain /\ [][NextRemove]_vars

\* a page object filled field by field, then updated or created
NextFresh ==
    \/ SetId({ThePageId})
    \/ SetTitle(Titles)
    \/ SetSpaceKey({<<"d", "e", "v">>})
    \/ SetParentPageId({<<"7">>})
    \/ SetVersionNumber({1})
    \/ AddLabel({<<"a">>})
    \/ ClientUpdatePageData({TheClient})
    \/ ClientCreatePage({TheClient})

SpecFresh == InitFresh /\ [][NextFresh]_vars

\* searchPages and loadPageChildren with their loops
NextPaging ==
    \/ SearchPages(CqlInputs, PagingServers)
    \/ LoadPageChildren(PageIdInputs, PagingServers)
    \/ PagingStep

SpecPaging == InitPlain /\ [][NextPaging]_vars

\* the loop goes on while it can: the method runs to its return
SpecPagingRuns == SpecPaging /\ WF_vars(PagingStep)

\* every method of ConfluenceClient that issues requests, called on a page that was
\* loaded or on a new page object
NextRemote ==
    \/ SetTitle({"Draft"})
    \/ SetSpaceKey({<<"d", "e", "v">>})
    \/ SetParentPageId({<<"7">>})
    \/ AddLabel({<<"a">>})
    \/ SearchPages({<<"i", "d", " ", "=", " ", "1">>}, SmallServer)
    \/ LoadPageChildren({<<"7">>}, SmallServer)
    \/ PagingStep
    \/ LoadPageDataById({ThePageId})
    \/ LoadPageDataByTitle({<<"d", "e", "v">>}, {"Draft", "Final"})
    \/ ClientLoadScaffoldingData({ThePageId}, {None})
    \/ PageLoadScaffoldingData({None})
    \/ ClientUpdatePageData({TheClient})
    \/ ClientUpdateScaffoldingData({TheClient})
    \/ ClientCreatePage({TheClient})
    \/ ClientAddPageLabels({TheClient}, {<<"a">>})
    \/ ClientRemovePageLabel({TheClient}, {<<"a">>})
    \/ ClientUpdatePageLabels({TheClient})
    \/ ClientRemovePage({TheClient})

\* the page was loaded, or is a new page object
InitRemote == InitPlain \/ InitFresh

SpecRemote == InitRemote /\ [][NextRemote]_vars

\* updateScaffoldingData called on a page that was loaded or is new, whose form
\* data was loaded or set and whose version number was set
NextScaffolding ==
    \/ SetId({ThePageId})
    \/ SetVersionNumber({0, 1})
    \/ SetScaffoldingValue({"f"}, {"v"})
    \/ PageLoadScaffoldingData({None})
    \/ ClientUpdateScaffoldingData({TheClient})

SpecScaffolding == InitRemote /\ [][NextScaffolding]_vars

\* createPage called with a new page object that was given its fields and labels
NextCreate ==
    \/ SetTitle({"Draft"})
    \/ SetSpaceKey({<<"d", "e", "v">>})
    \/ SetParentPageId({<<"7">>})
    \/ AddLabel({<<"a">>, <<"b">>})
    \/ RemoveLabel({<<"a">>})
    \/ ClientCreatePage({TheClient})

SpecCreate == InitFresh /\ [][NextCreate]_vars

-----------------------------------------------------------------------------
(* The claims.                                                             *)

\* one of the four dirty flags of the page data is set
PageDataDirty(p) ==
    p.hasTitleChanged \/ p.hasSpaceKeyChanged \/ p.hasParentPageIdChanged \/ p.hasBodyChanged

\* the request r was answered the way its caller takes for success
Succeeded(r) ==
    /\ r.fault = "none"
    /\ \/ r.method \in {"get", "post"} /\ r.status = 200
       \/ r.method = "put" /\ r.endpoint = "content" /\ r.status = 200
       \/ r.method = "put" /\ r.endpoint = "scaffolding" /\ r.status \in {200, 304}
       \/ r.method = "delete" /\ r.endpoint = "label" /\ r.status = 204
       \/ r.method = "delete" /\ r.endpoint = "content" /\ r.status \in {200, 204}

IsRequest(r, method, endpoint) == r.method = method /\ r.endpoint = endpoint

\* C1: ConfluencePage.update, called on a page whose page data and labels are both
\* dirty, with every request answered successfully and true returned, has issued
\* the PUT of the page and right after it the GET of the label list.
C1_UpdateSavesDataThenLabels ==
    ( /\ last.op = "update"
      /\ last.result = "true"
      /\ PageDataDirty(last.page)
      /\ last.page.haveLabelsChanged
      /\ \A i \in 1..Len(log) : Succeeded(log[i]) )
    => \E i \in 1..(Len(log) - 1) :
          /\ IsRequest(log[i], "put", "content")
          /\ IsRequest(log[i + 1], "get", "label")

\* the response to the one request of updatePageData held status 200 and a page
UpdateAnsweredWithPage ==
    /\ last.op = "updatePageData"
    /\ Len(log) = 1
    /\ log[1].status = 200
    /\ log[1].fault = "none"

\* C2: after ConfluenceClient.updatePageData was answered with status 200 and a
\* page, the version number of the caller's page is the version number of that
\* response, which is the version the server holds after the request.
C2_VersionIsTheReturnedOne ==
    UpdateAnsweredWithPage => page.intVersionNumber = Some(server.version)

\* C2's case: the server changed nothing and returned the version it had, while
\* the request had asked for the next one
C2_ServerChangedNothing ==
    /\ UpdateAnsweredWithPage
    /\ last.result = "true"
    /\ server.version = last.server.version
    /\ last.page.intVersionNumber = Some(server.version)

\* C3: whenever ConfluenceClient.updatePageData returned true, the title, space
\* key, parent and body flags of the page are all false.
C3_UpdateClearsDataFlags ==
    (last.op = "updatePageData" /\ last.result = "true") => ~PageDataDirty(page)

\* C4: a false dirty flag of a loaded page means that the field holds the value
\* the server holds, in every state setters and updates lead to.
C4_CleanFlagMeansServerValue ==
    /\ ~page.hasTitleChanged => page.strTitle = Some(server.title)
    /\ ~page.hasSpaceKeyChanged => page.strSpaceKey = Some(server.spaceKey)
    /\ ~page.hasParentPageIdChanged => page.strParentPageId = Some(server.parentId)
    /\ ~page.hasBodyChanged => page.strBody = Some(server.body)

\* C5: after setTitle, setSpaceKey, setParentPageId or setBody accepted v, the
\* getter returns v and the field's dirty flag is true exactly when v differs from
\* the value the field held before the call.
C5_SetterSetsValueAndFlag ==
    /\ (last.op = "setTitle" /\ last.result = "void") =>
          /\ page.strTitle = Some(last.arg)
          /\ page.hasTitleChanged = (last.page.strTitle # Some(last.arg))
    /\ (last.op = "setSpaceKey" /\ last.result = "void") =>
          /\ page.strSpaceKey = Some(last.arg)
          /\ page.hasSpaceKeyChanged = (last.page.strSpaceKey # Some(last.arg))
    /\ (last.op = "setParentPageId" /\ last.result = "void") =>
          /\ page.strParentPageId = Some(last.arg)
          /\ page.hasParentPageIdChanged = (last.page.strParentPageId # Some(last.arg))
    /\ (last.op = "setBody" /\ last.result = "void") =>
          /\ page.strBody = Some(last.arg)
          /\ page.hasBodyChanged = (last.page.strBody # Some(last.arg))

\* C5's case: a setter called with the value the field already held, while the
\* flag was set, leaves the flag false
C5_SameValueSetAgain ==
    /\ last.op = "setTitle"
    /\ last.result = "void"
    /\ last.page.strTitle = Some(last.arg)
    /\ last.page.hasTitleChanged
    /\ ~page.hasTitleChanged

\* setVersionNumber accepted a number other than the page's version
VersionReplaced ==
    /\ last.op = "setVersionNumber"
    /\ last.result = "void"
    /\ last.page.intVersionNumber # Some(last.arg)

\* C6: after setVersionNumber(v) with v other than the current version, the title,
\* body, parent and space key flags are all false, whatever they were before.
C6_NewVersionClearsDataFlags ==
    VersionReplaced => ~PageDataDirty(page)

\* C6's case: all four flags were set before the call
C6_AllFourFlagsWereSet ==
    /\ VersionReplaced
    /\ last.page.hasTitleChanged
    /\ last.page.hasSpaceKeyChanged
    /\ last.page.hasParentPageIdChanged
    /\ last.page.hasBodyChanged

\* C7: setVersionNumber(v) leaves the label flag and the scaffolding flag as they
\* were, for every v and every state before.
C7_VersionKeepsLabelAndScaffoldingFlags ==
    last.op = "setVersionNumber" =>
        /\ page.haveLabelsChanged = last.page.haveLabelsChanged
        /\ page.hasScaffoldingDataChanged = last.page.hasScaffoldingDataChanged

\* the label names the page holds
LocalLabelNames(p) == IF p.arrLabels # None THEN Range(Val(p.arrLabels)) ELSE {}

\* updatePageLabels was called and its GET of the label list was answered with the
\* labels the server held
LabelListDelivered ==
    /\ last.op = "updatePageLabels"
    /\ Len(log) >= 1
    /\ IsRequest(log[1], "get", "label")
    /\ Succeeded(log[1])

\* the server labels the page does not hold, and the page's labels the server
\* does not hold, when updatePageLabels was called
toRemove == last.server.labels \ LocalLabelNames(last.page)

toAdd == LocalLabelNames(last.page) \ last.server.labels

\* the positions among the sub-calls of the calls of removePageLabel and of
\* addPageLabels for name
RemoveCalls(name) ==
    {i \in 1..Len(last.calls) :
        last.calls[i].method = "removePageLabel" /\ last.calls[i].name = name}

AddCalls(name) ==
    {i \in 1..Len(last.calls) :
        last.calls[i].method = "addPageLabels" /\ last.calls[i].name = name}

\* C8: after the label list was delivered, updatePageLabels has made exactly one
\* remove call for each server label the page does not hold, exactly one add call
\* for each label of the page the server does not hold, and no call for any other
\* label.
C8_OneCallPerDifference ==
    LabelListDelivered =>
        /\ \A name \in toRemove : Cardinality(RemoveCalls(name)) = 1
        /\ \A name \in toAdd : Cardinality(AddCalls(name)) = 1
        /\ \A i \in 1..Len(last.calls) :
              \/ last.calls[i].method = "removePageLabel" /\ last.calls[i].name \in toRemove
              \/ last.calls[i].method = "addPageLabels" /\ last.calls[i].name \in toAdd

\* C9: after the label list was delivered, every server label the page does not
\* hold has had its remove call and every label of the page the server does not
\* hold has had its add call, whatever became of the calls before it.
C9_EveryDifferenceAttempted ==
    LabelListDelivered =>
        /\ \A name \in toRemove : RemoveCalls(name) # {}
        /\ \A name \in toAdd : AddCalls(name) # {}

\* C10: updatePageLabels returns true exactly when the GET of the label list and
\* every remove and add call it made succeeded, and what the calls that succeeded
\* did stays done on the server.
C10_ResultIsTheConjunction ==
    last.op = "updatePageLabels" =>
        /\ (last.result = "true") <=>
              /\ LabelListDelivered
              /\ \A i \in 1..Len(last.calls) : last.calls[i].result = "true"
        /\ \A i \in 1..Len(last.calls) :
              last.calls[i].result = "true" =>
                 /\ last.calls[i].method = "removePageLabel" =>
                       last.calls[i].name \notin server.labels
                 /\ last.calls[i].method = "addPageLabels" =>
                       last.calls[i].name \in server.labels

\* C10's case: a remove call failed, the add call after it succeeded, false was
\* returned and the added label is on the server
C10_FailedRemoveThenAdd ==
    /\ last.op = "updatePageLabels"
    /\ last.result = "false"
    /\ Len(last.calls) = 2
    /\ last.calls[1].method = "removePageLabel"
    /\ last.calls[1].result = "false"
    /\ last.calls[2].method = "addPageLabels"
    /\ last.calls[2].result = "true"
    /\ last.calls[1].name \in server.labels
    /\ last.calls[2].name \in server.labels
    /\ last.calls[2].name \notin last.server.labels

\* a label name as ConfluencePage.addLabel stores it: lower case, trimmed
normalised(name) == trim(toLowerCase(name))

\* C11: when updatePageLabels has returned true, the labels the server holds and
\* the labels the page holds are the same set, the names on both sides taken in
\* lower case and trimmed.
C11_TrueMeansSameLabels ==
    (last.op = "updatePageLabels" /\ last.result = "true") =>
        {normalised(n) : n \in server.labels} = {normalised(n) : n \in LocalLabelNames(page)}

\* C12: a call of updatePageLabels that follows directly on one that returned
\* true, and whose GET of the label list is answered, issues no request but that
\* GET and returns true.
C12_SecondReconcileIsIdle ==
    [][ ( /\ last.op = "updatePageLabels"
          /\ last.result = "true"
          /\ last'.op = "updatePageLabels"
          /\ Len(log') >= 1
          /\ Succeeded(log'[1]) )
        => (Len(log') = 1 /\ last'.calls = <<>> /\ last'.result = "true") ]_vars

\* the requests of the label step, and whether that step failed
IsLabelRequest(r) == r.endpoint = "label"

LabelStepFailed ==
    \/ \E i \in 1..Len(log) : IsLabelRequest(log[i]) /\ ~Succeeded(log[i])
    \/ \E i \in 1..Len(last.calls) : last.calls[i].result # "true"

\* C13: ConfluencePage.update stops at the first step that fails: after a failed
\* PUT of the page no label and no scaffolding request is issued, after a failed
\* label step no scaffolding request is issued, and true is returned only when
\* every request issued succeeded.
C13_UpdateShortCircuits ==
    last.op = "update" =>
        /\ (\E i \in 1..Len(log) : IsRequest(log[i], "put", "content") /\ ~Succeeded(log[i]))
              => (Len(log) = 1 /\ last.result = "false")
        /\ LabelStepFailed
              => /\ \A i \in 1..Len(log) : ~IsRequest(log[i], "put", "scaffolding")
                 /\ last.result = "false"
        /\ last.result = "true"
              => /\ \A i \in 1..Len(log) : Succeeded(log[i])
                 /\ \A i \in 1..Len(last.calls) : last.calls[i].result = "true"

\* C13's case: labels and scaffolding data were dirty, the GET of the label list
\* failed and update returned false without a scaffolding request
C13_LabelStepFailedBeforeScaffolding ==
    /\ last.op = "update"
    /\ last.result = "false"
    /\ last.page.haveLabelsChanged
    /\ last.page.hasScaffoldingDataChanged
    /\ Len(log) = 1
    /\ IsRequest(log[1], "get", "label")
    /\ ~Succeeded(log[1])

\* the last call returned true, issued no request and left the page as it was
IdleSuccess ==
    /\ last.result = "true"
    /\ log = <<>>
    /\ page = last.page
    /\ server = last.server

\* C14: on a page whose flags for the step are false, ConfluencePage.updatePageData,
\* updatePageLabels and updateScaffoldingData each return true, issue no request
\* and leave the page unchanged.
C14_CleanSaveIsIdle ==
    /\ (last.op = "page.updatePageData" /\ ~PageDataDirty(last.page)) => IdleSuccess
    /\ (last.op = "page.updatePageLabels" /\ ~last.page.haveLabelsChanged) => IdleSuccess
    /\ (last.op = "page.updateScaffoldingData" /\ ~last.page.hasScaffoldingDataChanged)
          => IdleSuccess

\* C14's case: updatePageLabels called on a page with a clean label flag while the
\* server holds no label of the page's
C14_CleanLabelsNotSent ==
    /\ last.op = "page.updatePageLabels"
    /\ ~last.page.haveLabelsChanged
    /\ LocalLabelNames(last.page) # last.server.labels
    /\ IdleSuccess

\* C15: after ConfluencePage.updatePageLabels or updateScaffoldingData returned
\* true having sent requests, the same method called again right away issues no
\* request.
C15_SaveResetsItsFlag ==
    [][ ( /\ last.op \in {"page.updatePageLabels", "page.updateScaffoldingData"}
          /\ last.result = "true"
          /\ log # <<>>
          /\ last'.op = last.op )
        => log' = <<>> ]_vars

\* C16: ConfluencePage.updateScaffoldingData, called right after
\* loadScaffoldingData returned true on a page whose scaffolding flag was false,
\* returns true without issuing a request.
C16_LoadedDataIsClean ==
    [][ ( /\ last.op = "page.loadScaffoldingData"
          /\ last.result = "true"
          /\ ~last.page.hasScaffoldingDataChanged
          /\ last'.op = "page.updateScaffoldingData" )
        => (log' = <<>> /\ last'.result = "true") ]_vars

\* the write-path entry points of ConfluenceClient
WriteEntryPoints ==
    {"ConfluenceClient.updatePageData", "ConfluenceClient.updateScaffoldingData",
     "ConfluenceClient.createPage", "ConfluenceClient.addPageLabels",
     "ConfluenceClient.removePageLabel", "ConfluenceClient.updatePageLabels",
     "ConfluenceClient.removePage"}

\* C17: every write-path entry point called with a page that was built from
\* another client than the one called throws and issues no request.
C17_ForeignPageRejected ==
    (last.op \in WriteEntryPoints /\ last.arg # last.page.refConfluenceClient) =>
        (last.result = "throw" /\ log = <<>>)

\* C18: removePage called with a page whose status is "trashed" throws, issues no
\* request and leaves the page as it was, so that the removePage that follows a
\* successful one does not reach the server.
C18_TrashedPageNotRemovedAgain ==
    (last.op = "ConfluenceClient.removePage" /\ last.page.strStatus = Some("trashed")) =>
        /\ last.result = "throw"
        /\ log = <<>>
        /\ page = last.page
        /\ server = last.server

\* removePage called again after the removePage that trashed the page
C18_SecondRemovePage ==
    /\ last.op = "ConfluenceClient.removePage"
    /\ last.page.strStatus = Some("trashed")
    /\ last.server.status = "trashed"
    /\ last.result = "throw"

\* the DELETE of the page was answered with status 200 or 204
RemovalAnswered ==
    /\ Len(log) = 1
    /\ IsRequest(log[1], "delete", "content")
    /\ log[1].fault = "none"
    /\ log[1].status \in {200, 204}

\* C19: removePage called on a client with a page of that client that has an id and
\* is not trashed issues the DELETE of the page; it returns true and sets the
\* page's status to "trashed" exactly when the response status is 200 or 204, and
\* otherwise returns false and leaves the status as it was.
C19_TrashedExactlyOn200Or204 ==
    ( /\ last.op = "ConfluenceClient.removePage"
      /\ isValidPageObj(last.arg, last.page)
      /\ TruthySeq(last.page.strId)
      /\ last.page.strStatus # Some("trashed") ) =>
        /\ Len(log) = 1
        /\ IsRequest(log[1], "delete", "content")
        /\ IF RemovalAnswered
           THEN last.result = "true" /\ page.strStatus = Some("trashed")
           ELSE last.result = "false" /\ page.strStatus = last.page.strStatus

\* a page removed with the server answering 204
C19_RemovedOn204 ==
    /\ last.op = "ConfluenceClient.removePage"
    /\ last.page.strStatus = Some("current")
    /\ RemovalAnswered
    /\ log[1].status = 204
    /\ last.result = "true"
    /\ page.strStatus = Some("trashed")

\* the fields updatePageData and createPage ask for
UpdateMinimum == {"strId", "intVersionNumber", "strParentPageId", "strTitle", "strSpaceKey"}

CreateMinimum == {"strParentPageId", "strTitle", "strSpaceKey"}

\* the call threw before any request and left the page as it was
Rejected == last.result = "throw" /\ log = <<>> /\ page = last.page

\* C20: updatePageData called with a page that lacks its id, version number, parent
\* page id, title or space key throws before any request and leaves the page
\* unchanged; so does createPage called with a page that lacks its parent page id,
\* title or space key.
C20_IncompletePageRejected ==
    /\ ( /\ last.op = "ConfluenceClient.updatePageData"
         /\ \E f \in UpdateMinimum : last.page[f] = None ) => Rejected
    /\ ( /\ last.op = "ConfluenceClient.createPage"
         /\ \E f \in CreateMinimum : last.page[f] = None ) => Rejected

\* updatePageData called with a page that lacks nothing but its parent page id
C20_UpdateWithoutParent ==
    /\ last.op = "ConfluenceClient.updatePageData"
    /\ last.page.strParentPageId = None
    /\ \A f \in UpdateMinimum \ {"strParentPageId"} : last.page[f] # None
    /\ Rejected

\* searchPages or loadPageChildren was called and its argument accepted
PagingCalled ==
    /\ last.op \in {"ConfluenceClient.searchPages", "ConfluenceClient.loadPageChildren"}
    /\ last.result # "throw"

\* the results of the first n requests of the loop, in order
RECURSIVE ResultsOfFirst(_)
ResultsOfFirst(n) == IF n = 0 THEN <<>> ELSE ResultsOfFirst(n - 1) \o log[n].results

\* the request was answered with status 200 and an empty list of results
EmptyPage(r) == r.fault = "none" /\ r.status = 200 /\ r.results = <<>>

\* C23: the loop of searchPages and loadPageChildren asks for each page from the
\* offset that is the number of results of all pages before it; the first page
\* without results ends the loop with no further request, and what is returned are
\* the decoded results of the pages before it, in order (n pages with results and
\* an empty one cost n+1 requests).
C23_PagingFollowsTheResults ==
    PagingCalled =>
        /\ \A i \in 1..Len(log) : log[i].start = Len(ResultsOfFirst(i - 1))
        /\ \A i \in 1..Len(log) :
             EmptyPage(log[i]) => (i = Len(log) /\ paging.pc = "done" /\ last.result = "list")
        /\ last.result = "list" =>
             /\ Len(log) >= 1
             /\ EmptyPage(log[Len(log)])
             /\ \A i \in 1..(Len(log) - 1) : log[i].results # <<>>
             /\ paging.arrPages = DecodeAll(TheClient, ResultsOfFirst(Len(log) - 1))

\* two pages with results, the second asked for from offset 2, then an empty one
C23_TwoPagesThenEmpty ==
    /\ PagingCalled
    /\ last.result = "list"
    /\ Len(log) = 3
    /\ log[2].start = 2
    /\ Len(paging.arrPages) = 3

\* C24: the loop of searchPages and loadPageChildren ends when the server answers
\* a request with an empty page or with a failure, which a server with finitely
\* many matches does; with a server that answers every request with status 200 and
\* a result, the loop never ends.
C24_LoopEndsWithTheServer ==
    /\ (paging.pc = "loop" /\ ~paging.endless) ~> (paging.pc = "done")
    /\ [](paging.endless => paging.pc # "done")

\* the third request to a server that never answers with an empty page is
\* answered, and the loop goes on
C24_EndlessServerStillAsked ==
    /\ PagingCalled
    /\ paging.endless
    /\ paging.pc = "loop"
    /\ Len(log) >= 3
    /\ \A i \in 1..Len(log) : log[i].results # <<>>

\* the request was answered with a status other than 200
FailedPage(r) == r.fault = "none" /\ r.status # 200

\* C25: searchPages and loadPageChildren return null, and no list of the pages
\* decoded so far, as soon as a request of the loop is answered with a status other
\* than 200, and issue no request after it.
C25_FailedPageGivesNull ==
    PagingCalled =>
        \A i \in 1..Len(log) :
          FailedPage(log[i]) => (i = Len(log) /\ paging.pc = "done" /\ last.result = "null")

\* a page was decoded before the request that failed
C25_FailureAfterDecodedPage ==
    /\ PagingCalled
    /\ Len(log) = 2
    /\ log[1].results # <<>>
    /\ paging.arrPages # <<>>
    /\ FailedPage(log[2])
    /\ last.result = "null"

\* the methods of ConfluenceClient that fetch and those that write
FetchOperations ==
    {"ConfluenceClient.searchPages", "ConfluenceClient.loadPageChildren",
     "ConfluenceClient.loadPageDataById", "ConfluenceClient.loadPageDataByTitle",
     "ConfluenceClient.loadScaffoldingData"}

\* a request of the last call was not answered successfully: an error thrown by
\* the HTTP execution or by the decoding of the response, or a status that the
\* method does not take for success
RemoteFailure == \E i \in 1..Len(log) : ~Succeeded(log[i])

\* C21: when a request of a method of ConfluenceClient fails (a status other than
\* the successful ones, an error thrown by the HTTP execution or by the decoding of
\* the response), the method throws nothing: searchPages, loadPageChildren,
\* loadPageDataById, loadPageDataByTitle and loadScaffoldingData return null, and
\* updatePageData, updateScaffoldingData, createPage, addPageLabels,
\* removePageLabel, updatePageLabels and removePage return false.
C21_RemoteFailureGivesSentinel ==
    /\ (last.op \in FetchOperations /\ RemoteFailure) => last.result = "null"
    /\ (last.op \in WriteEntryPoints /\ RemoteFailure) => last.result = "false"

\* sn_ws.RESTResponseV2.haveError: the platform reports the statuses from 400 on
\* as errors, and no status of the 2xx range
haveError(r) == r.status >= 400

\* the request left a message in _strErrorMsg: _logResponse writes one for a
\* response that has an error, _logCaughtError one for an error thrown by the
\* HTTP execution or by the decoding of the response
WritesErrorMsg(r) == r.fault # "none" \/ haveError(r)

\* C22: a method of ConfluenceClient that returns null or false because a request
\* failed has written the last-error message while it ran, so that
\* getLastErrorMessage returns the message of this failure and no earlier one.
C22_RemoteFailureIsRecorded ==
    ( /\ last.op \in FetchOperations \cup WriteEntryPoints
      /\ last.result \in {"null", "false"}
      /\ RemoteFailure ) =>
        \E i \in 1..Len(log) : WritesErrorMsg(log[i])

\* C26: updateScaffoldingData whose request is answered with status 200 returns
\* true and has increased the page's version number by exactly one; answered with
\* status 304 it returns true, and answered otherwise false, and the version
\* number is what it was.
C26_StatusDecidesTheVersion ==
    ( /\ last.op = "ConfluenceClient.updateScaffoldingData"
      /\ Len(log) = 1 ) =>
        IF log[1].fault = "none" /\ log[1].status = 200
        THEN /\ last.result = "true"
             /\ last.page.intVersionNumber # None
             /\ page.intVersionNumber = Some(Val(last.page.intVersionNumber) + 1)
        ELSE /\ last.result = (IF log[1].fault = "none" /\ log[1].status = 304
                               THEN "true" ELSE "false")
             /\ page.intVersionNumber = last.page.intVersionNumber

\* C27: updateScaffoldingData throws, and issues no request, when the page has no
\* Scaffolding data and when its Scaffolding data is an empty list.
C27_EmptyFormDataRejected ==
    ( /\ last.op = "ConfluenceClient.updateScaffoldingData"
      /\ last.page.arrScaffoldingData \in {None, Some(<<>>)} ) =>
        (last.result = "throw" /\ log = <<>>)

\* createPage was called with a page without an id and its POST was answered with
\* status 200 and the page created
CreateAnswered ==
    /\ last.op = "ConfluenceClient.createPage"
    /\ last.page.strId = None
    /\ Len(log) >= 1
    /\ IsRequest(log[1], "post", "content")
    /\ log[1].fault = "none"
    /\ log[1].status = 200

\* C28: after createPage was answered with status 200 for a page without an id,
\* the page has the id and the version number of the response and the status
\* "current"; when the page has a label, one request that adds all its labels
\* follows the create request, and no other.
C28_CreatedPageAdoptsTheResponse ==
    CreateAnswered =>
        /\ page.strId = Some(server.id)
        /\ page.intVersionNumber = Some(server.version)
        /\ page.strStatus = Some("current")
        /\ LocalLabelNames(last.page) # {} =>
             /\ Len(log) = 2
             /\ IsRequest(log[2], "post", "label")
             /\ log[2].names = Val(last.page.arrLabels)

\* a page with two labels was created and both went into the one label request
C28_CreatedWithTwoLabels ==
    /\ CreateAnswered
    /\ last.page.arrLabels # None
    /\ Len(Val(last.page.arrLabels)) = 2
    /\ Len(log) = 2
    /\ Len(log[2].names) = 2
    /\ page.strId = Some(NewPageId)

-----------------------------------------------------------------------------
(* The payload of a request, ConfluencePage.stringify.                       *)

\* the strings setVersionNumber is called with: two it accepts, one it refuses
VersionStrings == {<<"5">>, <<"0">>, <<"x">>}

\* ConfluencePage.setVersionNumber called with a string, one of strings
SetVersionNumberString(strings) ==
    \E v \in strings :
      Call("setVersionNumber", v,
           IF isValidInteger(v) THEN Local(setVersionNumberString(page, v), "void")
           ELSE Local(page, "throw"))

\* ConfluencePage.stringify called with the two flags; the result recorded is
\* the payload, whose field threw says that the call threw instead
Stringify ==
    \E createNewPage \in BOOLEAN, suppressNotifications \in BOOLEAN :
      Call("stringify", <<createNewPage, suppressNotifications>>,
           Local(page, stringify(page, createNewPage, suppressNotifications)))

NextStringify ==
    \/ SetVersionNumber(0..2)
    \/ SetVersionNumberString(VersionStrings)
    \/ SetTitle({"T2"})
    \/ Stringify

SpecStringify == InitRemote /\ [][NextStringify]_vars

\* the version number of a page as an integer, whichever way it was given
VersionOf(p) ==
    IF p.versionString # None THEN NumberOf(Val(p.versionString))
    ELSE Val(p.intVersionNumber)

\* stringify was called for an update (createNewPage false)
StringifiedForUpdate == last.op = "stringify" /\ ~last.arg[1]

\* stringify was called for a create (createNewPage true)
StringifiedForCreate == last.op = "stringify" /\ last.arg[1]

\* C29: for every version number v that setVersionNumber accepts, the update
\* payload of a page with an id contains the page's id and the version as the
\* integer v + 1, and is marked a minor edit exactly when notifications are
\* suppressed
C29_UpdatePayloadHasNextVersion ==
    (/\ StringifiedForUpdate
     /\ page.strId # None
     /\ (page.intVersionNumber # None \/ page.versionString # None))
    => /\ ~last.result.threw
       /\ last.result.id = page.strId
       /\ last.result.version = Some(VersionOf(page) + 1)
       /\ last.result.versionString = None
       /\ last.result.minorEdit = last.arg[2]

\* C30: stringify for a create returns a payload that has neither an id nor a
\* version, whether or not notifications are suppressed
C30_CreatePayloadHasNoIdAndVersion ==
    StringifiedForCreate
    => /\ ~last.result.threw
       /\ last.result.id = None
       /\ last.result.version = None
       /\ last.result.versionString = None

-----------------------------------------------------------------------------
(* The id of a page.                                                         *)

\* the numbers setId is called with
IdNumbers == {0, 100, 101}

\* setId with strings and with numbers, on a page that was loaded or is new,
\* and the two client methods that read or set the id
NextId ==
    \/ SetId({ThePageId, NewPageId})
    \/ SetIdNumber(IdNumbers)
    \/ SetTitle({"Draft"})
    \/ SetSpaceKey({<<"d", "e", "v">>})
    \/ SetParentPageId({<<"7">>})
    \/ ClientCreatePage({TheClient})
    \/ ClientUpdatePageData({TheClient})

SpecId == InitRemote /\ [][NextId]_vars

\* the id of a page as a number, whichever way it was given
IdOf(p) == IF p.strId # None THEN Some(NumberOf(Val(p.strId))) ELSE p.numericId

\* two pages have the same id: the same string, or the same number when one of
\* the two is a number
SameId(p, q) ==
    IF p.strId # None /\ q.strId # None THEN p.strId = q.strId ELSE IdOf(p) = IdOf(q)

\* the last call was setId with the id the page had before it
SetIdToTheSame ==
    IF last.arg[1] = "number" THEN IdOf(last.page) = Some(last.arg[2])
    ELSE IF last.page.strId # None THEN last.page.strId = Some(last.arg)
    ELSE IdOf(last.page) = Some(NumberOf(last.arg))

\* C31: once a page has an id, no operation changes it; setId with another
\* value throws and leaves the page as it was, setId with the same value succeeds
C31_IdIsSetOnce ==
    IdOf(last.page) # None
    => /\ SameId(page, last.page)
       /\ last.op = "setId"
          => IF SetIdToTheSame THEN last.result = "void"
             ELSE last.result = "throw" /\ page = last.page

-----------------------------------------------------------------------------
(* The labels of a page as a set.                                            *)

\* the three label methods of the page, on a page that was loaded without
\* labels or is new, and setVersionNumber, which clears the label flag
NextLabelSet ==
    \/ AddLabel(LabelInputs)
    \/ RemoveLabel(LabelInputs)
    \/ HasLabel(LabelInputs)
    \/ SetVersionNumber({1, 2})

SpecLabelSet == InitRemote /\ [][NextLabelSet]_vars

\* a label name as the page stores it: in lower case, without spaces around it
Normalized(name) == trim(toLowerCase(name))

C33_OnlyPositiveVersions ==
    last.op = "setVersionNumber"
    => IF last.arg > 0 THEN last.result = "void"
       ELSE last.result = "throw" /\ page = last.page

-----------------------------------------------------------------------------
(* ConfluenceClient.addPageLabels with a list of names.                      *)

\* the lists addPageLabels is called with: none, one name, a name in upper case,
\* two names, and a list with a name isValidLabelName rejects
LabelNameLists ==
    {<<>>, << <<"a">> >>, << <<"A">> >>, << <<"a">>, <<"b">> >>, << <<"a", " ">> >>}

\* ConfluenceClient.addPageLabels called with one of lists; the list is recorded
\* as the argument of the call
AddPageLabelsList(lists) ==
    \E arrLabelNames \in lists,
       response \in LabelAddResponses \cup {StatusResponse(204)} :
      Call("ConfluenceClient.addPageLabels", arrLabelNames,
           addPageLabels(TheClient, page, server, arrLabelNames, response))

\* addPageLabels on a page that was loaded without labels, between the label
\* methods of the page
NextAddLabels ==
    \/ AddLabel({<<"a">>})
    \/ RemoveLabel({<<"a">>, <<"b">>})
    \/ AddPageLabelsList(LabelNameLists)

SpecAddLabels == InitPlain /\ [][NextAddLabels]_vars

\* the last call was addPageLabels
AddPageLabelsCalled == last.op = "ConfluenceClient.addPageLabels"

\* C34: addPageLabels returns true only after its request was answered with
\* status 200, and then the page has every given name in normalized form; after
\* any other answer or a failed request it returns false, and whenever it
\* returns false the labels of the page are what they were; called with an empty
\* list it issues no request
C34_AddMirrorsOn200Only ==
    AddPageLabelsCalled
    => /\ last.result = "true"
          => /\ Len(log) = 1
             /\ log[1].method = "post" /\ log[1].endpoint = "label"
             /\ log[1].status = 200 /\ log[1].fault = "none"
             /\ \A i \in 1..Len(last.arg) :
                  Normalized(last.arg[i]) \in LocalLabelNames(page)
       /\ (Len(log) = 1 /\ (log[1].status # 200 \/ log[1].fault # "none"))
          => last.result = "false"
       /\ last.result = "false" => page.arrLabels = last.page.arrLabels
       /\ last.arg = <<>> => log = <<>>

\* addPageLabels was answered with 200 for the names a and b, which the page did
\* not have
C34_TwoNamesAdded ==
    /\ AddPageLabelsCalled
    /\ last.arg = << <<"a">>, <<"b">> >>
    /\ last.result = "true"
    /\ LocalLabelNames(last.page) = {}
    /\ LocalLabelNames(page) = {<<"a">>, <<"b">>}

-----------------------------------------------------------------------------
(* Requests are not repeated.                                                *)

\* the methods that issue one request
SingleRequestOperations ==
    {"ConfluenceClient.updatePageData", "ConfluenceClient.updateScaffoldingData",
     "ConfluenceClient.addPageLabels", "ConfluenceClient.removePageLabel",
     "ConfluenceClient.removePage", "ConfluenceClient.loadPageDataById",
     "ConfluenceClient.loadPageDataByTitle", "ConfluenceClient.loadScaffoldingData"}

\* every method of ConfluenceClient that issues requests, called on a page that
\* was loaded or on a new page object, while another user changes the labels of
\* the page on the server
NextNoRetry ==
    \/ SetTitle({"Draft"})
    \/ SetSpaceKey({<<"d", "e", "v">>})
    \/ SetParentPageId({<<"7">>})
    \/ AddLabel({<<"a">>})
    \/ SearchPages({<<"i", "d", " ", "=", " ", "1">>}, SmallServer)
    \/ LoadPageChildren({<<"7">>}, SmallServer)
    \/ PagingStep
    \/ LoadPageDataById({ThePageId})
    \/ LoadPageDataByTitle({<<"d", "e", "v">>}, {"Draft"})
    \/ ClientLoadScaffoldingData({ThePageId}, {None})
    \/ ClientUpdatePageData({TheClient})
    \/ ClientUpdateScaffoldingData({TheClient})
    \/ ClientCreatePage({TheClient})
    \/ ClientAddPageLabels({TheClient}, {<<"a">>})
    \/ ClientRemovePageLabel({TheClient}, {<<"a">>})
    \/ ClientUpdatePageLabels({TheClient})
    \/ ClientRemovePage({TheClient})
    \/ ExternalLabelChange({<<"b">>})

SpecNoRetry == InitRemote /\ [][NextNoRetry]_vars

\* two requests of one call are the same request
SameRequest(r, q) ==
    /\ r.method = q.method
    /\ r.endpoint = q.endpoint
    /\ r.names = q.names
    /\ PagingCalled => r.start = q.start

\* C35: the methods that issue one request issue at most one per call, and
\* createPage at most one create request; no request that failed is issued
\* again in the same call; in the loop of searchPages and loadPageChildren each
\* request follows a successful answer to the one before and starts where that
\* answer ended
C35_NoRequestIsRepeated ==
    /\ last.op \in SingleRequestOperations => Len(log) <= 1
    /\ last.op = "ConfluenceClient.createPage"
       => Cardinality({i \in 1..Len(log) : IsRequest(log[i], "post", "content")}) <= 1
    /\ \A i, j \in 1..Len(log) :
         (i < j /\ ~Succeeded(log[i])) => ~SameRequest(log[i], log[j])
    /\ PagingCalled
       => \A i \in 1..(Len(log) - 1) :
            /\ Succeeded(log[i])
            /\ log[i + 1].start = log[i].start + Len(log[i].results)

\* updatePageData was answered with an error and has returned false
C35_FailedUpdateSentOnce ==
    /\ last.op = "ConfluenceClient.updatePageData"
    /\ last.result = "false"
    /\ Len(log) = 1
    /\ log[1].status = 500

\* C36: when updatePageData returns false, whether the request failed, was
\* answered with another status than 200 or with a body that cannot be decoded,
\* the page is what it was before the call: id, title, space key, parent, body,
\* version number and every flag
C36_FailedUpdateLeavesThePage ==
    (last.op = "updatePageData" /\ last.result = "false") => page = last.page

\* updatePageData of a page with a changed title was answered with status 200
\* and a body that cannot be decoded
C36_UndecodableAnswer ==
    /\ last.op = "updatePageData"
    /\ last.result = "false"
    /\ last.page.hasTitleChanged
    /\ Len(log) = 1
    /\ log[1].status = 200
    /\ log[1].fault = "body"

\* the payload updatePageData has sent for the page it was called with
SentPayload == stringify(last.page, FALSE, last.arg)

\* C37: the payload of updatePageData carries every field of the page whose flag
\* is set, with the value the page has: a changed title, space key, parent page
\* id or body, a body set to the empty string included
C37_DirtyFieldsAreSent ==
    (last.op = "updatePageData" /\ Len(log) = 1)
    => /\ last.page.hasTitleChanged
          => SentPayload.title # None /\ SentPayload.title = last.page.strTitle
       /\ last.page.hasSpaceKeyChanged
          => SentPayload.spaceKey # None /\ SentPayload.spaceKey = last.page.strSpaceKey
       /\ last.page.hasParentPageIdChanged
          => SentPayload.ancestors # None /\ SentPayload.ancestors = last.page.strParentPageId
       /\ last.page.hasBodyChanged
          => SentPayload.body # None /\ SentPayload.body = last.page.strBody

\* C38: updatePageLabels does not change the labels of the page: whatever the
\* label list of the server is, names that differ from the page's only in letter
\* case included, and whichever of its remove and add calls fail, the page has
\* the same set of labels after the call as before it
C38_ReconcileKeepsLocalLabels ==
    last.op = "updatePageLabels" => LocalLabelNames(page) = LocalLabelNames(last.page)

\* the label list of updatePageLabels was not delivered: the request failed or
\* was answered with another status than 200
LabelListRefused ==
    /\ last.op = "updatePageLabels"
    /\ Len(log) >= 1
    /\ IsRequest(log[1], "get", "label")
    /\ (log[1].fault = "transport" \/ log[1].status # 200)

\* C39: when the request for the label list fails or is answered with another
\* status than 200, updatePageLabels returns false, issues no request to remove
\* or add a label, and leaves the page as it was
C39_NoListNoReconciliation ==
    LabelListRefused
    => /\ last.result = "false"
       /\ Len(log) = 1
       /\ last.calls = <<>>
       /\ page = last.page

\* the label list was refused with status 500 while the page had a label to add
\* and the server one to remove
C39_RefusedWithWorkToDo ==
    /\ LabelListRefused
    /\ log[1].status = 500
    /\ RemoveCandidates(last.page, last.server) # {}
    /\ AddCandidates(last.page, last.server) # {}

-----------------------------------------------------------------------------
(* createPage called with a page that has an id.                             *)

\* createPage on a page that was loaded, after its title, version number, labels
\* and status were changed
NextRecreate ==
    \/ SetTitle(Titles)
    \/ SetVersionNumber({2})
    \/ AddLabel({<<"a">>})
    \/ ClientRemovePage({TheClient})
    \/ ClientCreatePage({TheClient})

SpecRecreate == InitPlain /\ [][NextRecreate]_vars

\* createPage was called with a page that has an id, and its request was answered
\* with status 200 and a page that has another id
CreatedUnderAnotherId ==
    /\ last.op = "ConfluenceClient.createPage"
    /\ HasId(last.page)
    /\ Len(log) >= 1
    /\ IsRequest(log[1], "post", "content")
    /\ log[1].status = 200 /\ log[1].fault = "none"
    /\ last.page.strId # Some(NewPageId)

====
